---- MODULE Spec2Model ----
(***************************************************************************)
(* The centroid tracker (src/src/cv/centroid/mod.rs) and the frame loop    *)
(* that drives it and counts line crossings (src/src/cv/net.rs,            *)
(* Net::process_frame), as a state machine.                                *)
(*                                                                         *)
(* One step of the machine is one call of Net::process_frame.  The         *)
(* detector and the KCF trackers are the environment: they decide how many *)
(* detections a detection frame accepts and which boxes the trackers       *)
(* report on a tracking frame.                                             *)
(*                                                                         *)
(* Conventions.                                                            *)
(*  - Sequences are 1-based here and 0-based in the source: input index j  *)
(*    of the source is position j + 1 of `rects`.  Object ids are the      *)
(*    source's (they start at 0).                                          *)
(*  - An f32 distance sqrt(dx^2 + dy^2) is represented by its radicand     *)
(*    dx^2 + dy^2.  On the coordinates used (all below 2^12) the f32       *)
(*    square root is strictly increasing in the radicand, so comparing     *)
(*    radicands is comparing distances, and d <= 20.0 is radicand <= 400.  *)
(*  - An iteration over a HashMap visits the keys in an order the program  *)
(*    does not control: every order is a possible one.                     *)
(***************************************************************************)
EXTENDS Integers, Sequences, FiniteSets, TLC

(***************************************************************************)
(* Program constants.                                                      *)
(***************************************************************************)
GreedyLimit == 5
HistoryCap == 50
mid_y == 250
max_distance == 20
NetMaxDisappeared == 3
DefaultStep == 10
CostScale == 1000
I32Max == 2147483647

(***************************************************************************)
(* Bounds of the model.                                                    *)
(***************************************************************************)
MaxCallsSmall == 5
MaxTrackersSmall == 2
MaxCallsLong == 58
MaxCallsCrowd == 4
MaxCallsMalformed == 4
MaxCallsTies == 3
MaxCallsWindow == 55
MaxTrackersTies == 3
MaxSetLoggerCalls == 3
MaxLogCalls == 2
MaxWholeDistance == 16000000
MaxObjectsWorkers == 2
MaxFrames == 3
MaxPolls == 3

I32Min == (-I32Max) - 1

(***************************************************************************)
(* Geometry: Rect, Centroid::from_rect, Centroid::distance_to.             *)
(***************************************************************************)
Rect(x, y, w, h) == [x |-> x, y |-> y, width |-> w, height |-> h]

\* i32 division truncates toward zero.
TruncDiv(a, b) == IF a >= 0 THEN a \div b ELSE -((-a) \div b)

from_rect(rect) ==
    [x |-> rect.x + TruncDiv(rect.width, 2),
     y |-> rect.y + TruncDiv(rect.height, 2)]

\* The radicand of the f32 distance (see the conventions above).
distance_to(self, other) ==
    (self.x - other.x) * (self.x - other.x)
        + (self.y - other.y) * (self.y - other.y)

\* distance <= self.max_distance
WithinMaxDistance(d) == d <= max_distance * max_distance

\* A box of width 11 and height 10 whose centroid is (cx, cy).
BoxAt(cx, cy) == Rect(cx - 5, cy - 5, 11, 10)

\* Rect is Rect_<i32> with public fields: nothing keeps a width or a height
\* from being negative.  Two such boxes, of centroids (100, 240) and
\* (100, 260).
NegativeBoxes == {Rect(105, 245, -11, -10), Rect(95, 275, 11, -30)}

(***************************************************************************)
(* The environment profiles: which boxes the trackers can report, how many *)
(* trackers a detection frame can create, and how many frames are run.     *)
(***************************************************************************)
Envs == {"small", "long", "crowd", "malformed", "ties", "window"}

LaneX(k) == 100 * k

MaxTrackers(e) ==
    CASE e = "small" -> MaxTrackersSmall
      [] e = "long"  -> 1
      [] e = "crowd" -> GreedyLimit + 1
      [] e = "malformed" -> 2
      [] e = "ties" -> MaxTrackersTies
      [] e = "window" -> 1

MaxCalls(e) ==
    CASE e = "small" -> MaxCallsSmall
      [] e = "long"  -> MaxCallsLong
      [] e = "crowd" -> MaxCallsCrowd
      [] e = "malformed" -> MaxCallsMalformed
      [] e = "ties" -> MaxCallsTies
      [] e = "window" -> MaxCallsWindow

\* The constructor arguments a profile runs with: max_disappeared of
\* CentroidTracker::new and skip_frames of Net::new.
MaxDisappearedArgs(e) ==
    CASE e = "small" -> {0, 1}
      [] e = "long"  -> {NetMaxDisappeared}
      [] e = "crowd" -> {1}
      [] e = "malformed" -> {1}
      [] e = "ties" -> {1}
      [] e = "window" -> {NetMaxDisappeared}

StepArgs(e) ==
    CASE e = "small" -> {3}
      [] e = "long"  -> {DefaultStep}
      [] e = "crowd" -> {2, 3}
      [] e = "malformed" -> {3}
      [] e = "ties" -> {3}
      [] e = "window" -> {MaxCallsWindow}

RECURSIVE SeqsUpTo(_, _)
\* The sequences over S of length at most n.
SeqsUpTo(S, n) ==
    IF n = 0 THEN {<<>>}
    ELSE LET shorter == SeqsUpTo(S, n - 1)
         IN  shorter \cup {Append(s, b) : s \in {t \in shorter : Len(t) = n - 1}, b \in S}

\* Tracker i of the crowd follows lane i; in one frame all reported boxes are
\* at height 240 + shift.
CrowdShifts == {0, 10, 30}

PrefixReport(n, shift) == [i \in 1..n |-> BoxAt(LaneX(i), 240 + shift)]

VARIABLES
    next_oid,         \* CentroidTracker.next_oid
    objects,          \* CentroidTracker.objects: oid -> TrackableObject
    disappeared,      \* CentroidTracker.disappeared: oid -> misses
    max_disappeared,  \* CentroidTracker.max_disappeared
    trackers,         \* Net.trackers: the number of KCF trackers held
    tracked_rects,    \* Net.tracked_rects
    skip_frames,      \* Net.skip_frames
    frame_count,      \* Net.frame_count
    status,           \* "running", or "panicked" once the process aborted
    env,              \* the environment profile of this run
    calls,            \* process_frame calls made so far
    last,             \* what the last process_frame call did
    miss_streak,      \* oid -> consecutive update calls without a match
    empty_streak,     \* consecutive update calls given no detection
    emitted,          \* oid -> crossing events logged for it so far
    rematched,        \* the oids matched at least once while holding a miss entry
    pushed,           \* oid -> every centroid pushed to its history, in order
    LOGGER_INIT,      \* the Once of log/src/lib.rs
    LOGGER,           \* thread -> the logger in its thread-local LOGGER, 0 for None
    loggers,          \* logger -> AdvancedLogger.level, for every logger created
    set_call,         \* thread -> where it is inside set_logger
    ok_count,         \* set_logger calls that returned Ok(())
    last_log,         \* what the last log!(..) did
    log_calls,        \* log!(..) and set_level calls made so far
    int_cell,         \* a tracker's max_distance and the int_matrix cell it computed last
    par,              \* an update call in progress: its phase and its locals
    recorder          \* SynchronizedRecorder::start, its two tasks and its watch channel

trackvars == <<next_oid, objects, disappeared, max_disappeared, trackers,
               tracked_rects, skip_frames, frame_count, status, env, calls,
               last, miss_streak, empty_streak, emitted, rematched, pushed>>

logvars == <<LOGGER_INIT, LOGGER, loggers, set_call, ok_count, last_log,
             log_calls>>

auxvars == <<int_cell, par, recorder>>

vars == <<trackvars, logvars, auxvars>>

\* The lists of boxes k trackers can report on a tracking frame: one box per
\* tracker whose update succeeded, in tracker order.  In the window profile
\* the one tracker follows a walker who moves down one pixel a frame.
Reports(e, k) ==
    CASE e = "small" -> SeqsUpTo({BoxAt(100, y) : y \in {230, 240, 250, 260}}, k)
      [] e = "long"  -> SeqsUpTo({BoxAt(100, 260)}, k)
      [] e = "crowd" -> {PrefixReport(n, shift) : n \in 0..k, shift \in CrowdShifts}
      [] e = "malformed" ->
            SeqsUpTo({BoxAt(100, 240), BoxAt(100, 260)} \cup NegativeBoxes, k)
      [] e = "ties" -> SeqsUpTo({BoxAt(100, y) : y \in {230, 240, 250, 260}}, k)
      [] e = "window" -> SeqsUpTo({BoxAt(100, 200 + calls)}, k)

Oids == DOMAIN objects

Last(s) == s[Len(s)]

(***************************************************************************)
(* CentroidTracker::register and CentroidTracker::deregister, on a tracker *)
(* state t = [objects, disappeared, next_oid].                             *)
(***************************************************************************)
\* An object that is born with a direction.
TrackableObject_down(oid, centroid) ==
    [oid |-> oid, centroids |-> <<centroid>>, counted |-> FALSE,
     last_direction |-> "Down"]

TrackableObject(oid, centroid) ==
    [oid |-> oid, centroids |-> <<centroid>>, counted |-> FALSE,
     last_direction |-> "None"]

\* The map m with key k set to v (HashMap::insert).
Insert(m, k, v) == [j \in (DOMAIN m) \cup {k} |-> IF j = k THEN v ELSE m[j]]

\* The map m without key k (HashMap::remove).
Remove(m, k) == [j \in (DOMAIN m) \ {k} |-> m[j]]

\* A registration that takes the least id no registered object holds.
register_reuse(t, centroid) ==
    [t EXCEPT !.next_oid = t.next_oid + 1,
              !.objects =
                  Insert(t.objects,
                         CHOOSE k \in 0..t.next_oid :
                            /\ k \notin DOMAIN t.objects
                            /\ \A l \in 0..(k - 1) : l \in DOMAIN t.objects,
                         [oid |-> CHOOSE k \in 0..t.next_oid :
                                    /\ k \notin DOMAIN t.objects
                                    /\ \A l \in 0..(k - 1) : l \in DOMAIN t.objects,
                          centroids |-> <<centroid>>, counted |-> FALSE,
                          last_direction |-> "None"])]

register(t, centroid) ==
    [t EXCEPT !.next_oid = t.next_oid + 1,
              !.objects = Insert(t.objects, t.next_oid,
                                 TrackableObject(t.next_oid, centroid))]

\* A deregistration that leaves the miss entry behind.
deregister_objects_only(t, oid) ==
    [t EXCEPT !.objects = Remove(t.objects, oid)]

deregister(t, oid) ==
    [t EXCEPT !.objects = Remove(t.objects, oid),
              !.disappeared = Remove(t.disappeared, oid)]

RECURSIVE RegisterAll_descending(_, _, _, _)
\* A registration loop that runs from the last input to the first.
RegisterAll_descending(t, input, used, j) ==
    IF j > Len(input) THEN t
    ELSE RegisterAll_descending(
            IF (Len(input) + 1 - j) \in used THEN t
            ELSE register(t, input[Len(input) + 1 - j]),
            input, used, j + 1)

RECURSIVE RegisterAll(_, _, _, _)
\* for (input_idx, centroid) in input: register it unless used (in index order).
RegisterAll(t, input, used, j) ==
    IF j > Len(input) THEN t
    ELSE RegisterAll(IF j \in used THEN t ELSE register(t, input[j]),
                     input, used, j + 1)

\* A deregistration test that lets one more miss pass.
ExceedsMaxDisappeared_late(entry, md) == entry > md + 1

\* *entry > self.max_disappeared
ExceedsMaxDisappeared(entry, md) == entry > md

RECURSIVE HandleDisappeared_all(_, _, _, _, _)
\* A miss loop that does not look at matched_oids.
HandleDisappeared_all(t, oids, matched, md, i) ==
    IF i > Len(oids) THEN t
    ELSE LET oid == oids[i]
             entry == (IF oid \in DOMAIN t.disappeared
                       THEN t.disappeared[oid] ELSE 0) + 1
             counted_miss == [t EXCEPT !.disappeared = Insert(t.disappeared, oid, entry)]
             next == IF ExceedsMaxDisappeared(entry, md)
                     THEN deregister(counted_miss, oid)
                     ELSE counted_miss
         IN  HandleDisappeared_all(next, oids, matched, md, i + 1)

RECURSIVE HandleDisappeared(_, _, _, _, _)
\* for oid in &oids: an unmatched one gets its miss counter incremented and
\* is deregistered when the counter exceeds max_disappeared.
HandleDisappeared(t, oids, matched, md, i) ==
    IF i > Len(oids) THEN t
    ELSE LET oid == oids[i]
             entry == (IF oid \in DOMAIN t.disappeared
                       THEN t.disappeared[oid] ELSE 0) + 1
             counted_miss == [t EXCEPT !.disappeared = Insert(t.disappeared, oid, entry)]
             next == IF oid \in matched THEN t
                     ELSE IF ExceedsMaxDisappeared(entry, md)
                          THEN deregister(counted_miss, oid)
                          ELSE counted_miss
         IN  HandleDisappeared(next, oids, matched, md, i + 1)

\* A match that leaves the miss entry in place.
ApplyMatch_keeping(t, oid, centroid) ==
    [t EXCEPT !.objects[oid].centroids = Append(@, centroid)]

\* obj.centroids.push(centroid); self.disappeared.remove(oid)
ApplyMatch(t, oid, centroid) ==
    [t EXCEPT !.objects[oid].centroids = Append(@, centroid),
              !.disappeared = Remove(t.disappeared, oid)]

(***************************************************************************)
(* CentroidTracker::greedy_update.                                         *)
(***************************************************************************)
\* The (distance, index) pairs that reach min_by, in input order: the unused
\* inputs within max_distance of last_centroid (lines 196-211).
Candidates(last_centroid, input, used_inputs) ==
    LET pair(j) == <<distance_to(last_centroid, input[j]), j>>
        Kept(c) == c[2] \notin used_inputs /\ WithinMaxDistance(c[1])
    IN  SelectSeq([j \in 1..Len(input) |-> pair(j)], Kept)

\* A reduction that keeps the right operand of two equal ones.
MinOp_last(a, b) == IF a[1] >= b[1] THEN b ELSE a

\* The operator min_by reduces with: the right operand when the comparison
\* says Greater, the left one otherwise.
MinOp(a, b) == IF a[1] > b[1] THEN b ELSE a

RECURSIVE Reductions(_)
\* What reduce_with can yield on the non-empty sequence s: the work is split
\* at any place into a left and a right part, each reduced the same way, and
\* the two results are combined left to right.
Reductions(s) ==
    IF Len(s) = 1 THEN {s[1]}
    ELSE UNION {{MinOp(l, r) : l \in Reductions(SubSeq(s, 1, k)),
                               r \in Reductions(SubSeq(s, k + 1, Len(s)))} :
                k \in 1..(Len(s) - 1)}

\* The indices min_by can hand back, 0 for None.
min_by(cands) ==
    IF cands = <<>> THEN {0} ELSE {r[2] : r \in Reductions(cands)}

\* input.par_iter().enumerate().filter(unused).map(distance)
\*      .filter(within max_distance).min_by(partial_cmp): the position of the
\* unused input nearest to last_centroid among those within max_distance, or
\* 0 for None.  Rayon's min_by reduces with
\*      |a, b| match cmp(a, b) { Greater => b, _ => a }
\* and hands the operands over in input order, so of several nearest inputs
\* the first one is kept.
\* A best match that does not skip the inputs already used.
BestMatch_any(last_centroid, input, used_inputs) ==
    LET cand == {j \in 1..Len(input) :
                    WithinMaxDistance(distance_to(last_centroid, input[j]))}
        d(j) == distance_to(last_centroid, input[j])
    IN  IF cand = {} THEN 0
        ELSE CHOOSE j \in cand :
                \A k \in cand : d(j) < d(k) \/ (d(j) = d(k) /\ j <= k)

BestMatch(last_centroid, input, used_inputs) ==
    LET cand == {j \in 1..Len(input) :
                    /\ j \notin used_inputs
                    /\ WithinMaxDistance(distance_to(last_centroid, input[j]))}
        d(j) == distance_to(last_centroid, input[j])
    IN  IF cand = {} THEN 0
        ELSE CHOOSE j \in cand :
                \A k \in cand : d(j) < d(k) \/ (d(j) = d(k) /\ j <= k)

RECURSIVE GreedyLoop(_, _, _, _)
\* for oid in &oids: match it to its best unused input, if there is one.
\* m = [t, used_inputs, matched]; matched maps a matched oid to its input.
GreedyLoop(m, oids, input, i) ==
    IF i > Len(oids) THEN m
    ELSE LET oid == oids[i]
             best_match == BestMatch(Last(m.t.objects[oid].centroids), input,
                                     m.used_inputs)
             next == IF best_match = 0 THEN m
                     ELSE [t |-> ApplyMatch(m.t, oid, input[best_match]),
                           used_inputs |-> m.used_inputs \cup {best_match},
                           matched |-> Insert(m.matched, oid, best_match)]
         IN  GreedyLoop(next, oids, input, i + 1)

NoMatches(t) == [t |-> t, used_inputs |-> {}, matched |-> <<>>]

\* What an update call hands back to process_frame, with what it did:
\*   result: "Ok", "Err" or "Panic";  t: the tracker state after the call;
\*   matched: oid -> input position appended to it;  path: the branch taken.
Outcome(result, t, matched, path) ==
    [result |-> result, t |-> t, matched |-> matched, path |-> path]

greedy_update(t, input, oids, md) ==
    LET m == GreedyLoop(NoMatches(t), oids, input, 1)
        t2 == HandleDisappeared(m.t, oids, DOMAIN m.matched, md, 1)
        t3 == RegisterAll(t2, input, m.used_inputs, 1)
    IN  Outcome("Ok", t3, m.matched, "greedy")

(***************************************************************************)
(* The optimal path of CentroidTracker::update: the quantised cost matrix. *)
(***************************************************************************)
RECURSIVE RoundSqrtIn(_, _, _)
\* The least q in lo..hi with n <= q*q + q, which is sqrt(n) rounded to the
\* nearest integer.
RoundSqrtIn(n, lo, hi) ==
    IF lo = hi THEN lo
    ELSE LET mid == (lo + hi) \div 2
         IN  IF n <= mid * mid + mid THEN RoundSqrtIn(n, lo, mid)
             ELSE RoundSqrtIn(n, mid + 1, hi)

\* The two radicands up to 400 at which the f32 product sqrt(d) * 1000.0
\* rounds one above the exact value's nearest integer.
F32RoundsUp == {176, 244}

\* (d * 1000.0).round() as i32, for a distance within max_distance.
Quantise(d) ==
    RoundSqrtIn(d * CostScale * CostScale, 0, max_distance * CostScale)
        + (IF d \in F32RoundsUp THEN 1 ELSE 0)

\* A cost matrix that holds no distance.
CostCell_flat(d) == 0

\* The cell of int_matrix for a distance: the sentinel when it exceeds
\* max_distance.
CostCell(d) == IF WithinMaxDistance(d) THEN Quantise(d) ELSE I32Max

RECURSIVE UlpFrom(_, _)
\* The spacing of the f32 values around the whole number n >= 0: 1 below
\* 2^24, doubling with every power of two from there on.
UlpFrom(n, u) == IF n \div u < 16777216 THEN u ELSE UlpFrom(n, 2 * u)

\* The f32 nearest to the whole number n >= 0, ties to the even significand.
RoundF32(n) ==
    LET u == UlpFrom(n, 1)
        q == n \div u
        r == n % u
    IN  IF 2 * r < u THEN q * u
        ELSE IF 2 * r > u THEN (q + 1) * u
        ELSE IF q % 2 = 0 THEN q * u ELSE (q + 1) * u

\* (d * 1000.0).round() as i32 for a distance d that is a whole number below
\* 2^24.  d * 1000.0 is the f32 nearest to d * 1000, which is 8 times the f32
\* nearest to d * 125 (a factor of 8 is exact in f32); it is a whole number,
\* which round() keeps, and `as i32` saturates: from 2^31 = 8 * 2^28 on the
\* result is i32::MAX.
QuantiseWhole(d) ==
    IF RoundF32(d * (CostScale \div 8)) >= 268435456 THEN I32Max
    ELSE 8 * RoundF32(d * (CostScale \div 8))

\* The int_matrix cell of a tracker built with max_distance = md for a pair
\* at the whole distance d: lines 88-92, then lines 102-106.
CostCellFor(md, d) == IF d <= md THEN QuantiseWhole(d) ELSE I32Max

\* The max_distance arguments of CentroidTracker::new that are tried: the
\* one Net::new passes, smaller ones, and ones at and beyond i32::MAX / 1000.
MaxDistanceArgs == {1, max_distance, 1000, 2147483, 2147484, 3000000}

\* The whole distances tried: two centroids d apart along one axis.
WholeDistances ==
    (0..25) \cup {999, 1000, 1001, 16777, 16778}
        \cup (2147480..2147487) \cup {2999999, 3000000, 3000001, MaxWholeDistance}

\* No cell computed yet, in a tracker built as Net::new builds it.
NoCell == [max_distance |-> max_distance, computed |-> FALSE, distance |-> 0,
           value |-> 0]

\* The function or sequence f, computed in full: TLC keeps a function
\* expression unevaluated until it is compared, and the matching reads each
\* label and slack many times.
Eager(f) == IF f = <<>> THEN <<>> ELSE f

\* The quantised cost of every pair: cells[oid][j] for object oid and input j
\* (lines 86-92 and 101-107).
CostCells(objs, input) ==
    Eager([oid \in DOMAIN objs |->
        Eager([j \in 1..Len(input) |->
            CostCell(distance_to(Last(objs[oid].centroids), input[j]))])])

\* int_matrix: row i is the row of oids[i], one column per input.
IntMatrix(cells, oids) == Eager([i \in 1..Len(oids) |-> cells[oids[i]]])

(***************************************************************************)
(* i32 arithmetic.  An overflowing operation aborts a build with overflow  *)
(* checks (the dev profile) and wraps in one without (the release          *)
(* profile): the wrapped value and whether it overflowed are both kept.    *)
(***************************************************************************)
AddOverflows(a, b) ==
    \/ a > 0 /\ b > 0 /\ a > I32Max - b
    \/ a < 0 /\ b < 0 /\ a < I32Min - b

Add32(a, b) ==
    IF a > 0 /\ b > 0 /\ a > I32Max - b
    THEN (a - I32Max - 1) + (b - I32Max - 1)
    ELSE IF a < 0 /\ b < 0 /\ a < I32Min - b
         THEN (a + I32Max + 1) + (b + I32Max + 1)
         ELSE a + b

SubOverflows(a, b) ==
    IF b = I32Min THEN a >= 0 ELSE AddOverflows(a, -b)

Sub32(a, b) ==
    IF b = I32Min THEN (IF a >= 0 THEN a + I32Min ELSE a + I32Max + 1)
    ELSE Add32(a, -b)

RECURSIVE Sum32(_, _, _)
\* iter.sum::<i32>() of s from position i on, started from acc:
\* [v: the wrapped sum, ovf: whether an addition overflowed].
Sum32(s, i, acc) ==
    IF i > Len(s) THEN acc
    ELSE Sum32(s, i + 1, [v |-> Add32(acc.v, s[i]),
                          ovf |-> acc.ovf \/ AddOverflows(acc.v, s[i])])

(***************************************************************************)
(* pathfinding::kuhn_munkres, the matching the optimal path calls through  *)
(* kuhn_munkres_min (mod.rs line 113): the Hungarian algorithm on labels   *)
(* lx, ly and slacks, in i32.  w is the matrix kuhn_munkres_min hands it:  *)
(* the negated int_matrix.  Rows and columns are 1-based and 0 stands for  *)
(* None.  dev_abort records that an addition overflowed or a debug         *)
(* assertion failed, which aborts a dev build only; fail records an        *)
(* Option::unwrap on None or a loop that does not end.                     *)
(***************************************************************************)
\* lx[x] + ly[y] - weights.at(x, y)
EdgeSlack(lxv, lyv, wv) ==
    [v |-> Sub32(Add32(lxv, lyv), wv),
     ovf |-> AddOverflows(lxv, lyv) \/ SubOverflows(Add32(lxv, lyv), wv)]

\* The iterations a loop of the matching is followed for.
KMFuel(nx, ny) == 2 * (nx + ny) + 2

\* for yy in 0..ny { if alternating[yy].is_none() && slack[yy] < delta {..} }
\* with delta starting at i32::MAX: the free columns that can lower delta.
KMColumns(q, ny) ==
    {yy \in 1..ny : q.alternating[yy] = 0 /\ q.slack[yy] < I32Max}

\* The column the scan ends on: the first one of least slack (column 1, the
\* initial y, when no column lowers delta).
KMColumn(q, cand) ==
    IF cand = {} THEN 1
    ELSE CHOOSE yy \in cand :
            \A k \in cand : q.slack[yy] < q.slack[k]
                            \/ (q.slack[yy] = q.slack[k] /\ yy <= k)

\* if delta > 0 { lx[x] -= delta for x in s; ly[y] += delta or
\* slack[y] -= delta for every column }, then alternating[y] = Some(x).
KMRelabel(q, ny, y, x, delta) ==
    [lx |-> Eager([r \in 1..Len(q.lx) |->
                IF delta > 0 /\ r \in q.s THEN Sub32(q.lx[r], delta) ELSE q.lx[r]]),
     ly |-> Eager([c \in 1..ny |->
                IF delta > 0 /\ q.alternating[c] # 0 THEN Add32(q.ly[c], delta)
                ELSE q.ly[c]]),
     slack |-> Eager([c \in 1..ny |->
                IF delta > 0 /\ q.alternating[c] = 0 THEN Sub32(q.slack[c], delta)
                ELSE q.slack[c]]),
     slackx |-> q.slackx,
     s |-> q.s,
     alternating |-> [q.alternating EXCEPT ![y] = x],
     dev_abort |-> \/ q.dev_abort
                   \/ /\ delta > 0
                      /\ \/ \E r \in q.s : SubOverflows(q.lx[r], delta)
                         \/ \E c \in 1..ny :
                               IF q.alternating[c] # 0
                               THEN AddOverflows(q.ly[c], delta)
                               ELSE SubOverflows(q.slack[c], delta)]

\* The end of the search: y is the free column reached, or 0 when the loop
\* was not followed to its end.
KMFound(q, y) ==
    [lx |-> q.lx, ly |-> q.ly, alternating |-> q.alternating,
     dev_abort |-> q.dev_abort, y |-> y]

\* Row x2 joins the tree: s.insert(x2) (debug_assert!(!s.contains(x2))) and
\* the slacks are lowered by its edges es.
KMAddRow(q, x2, ny, es) ==
    [lx |-> q.lx, ly |-> q.ly, s |-> q.s \cup {x2},
     alternating |-> q.alternating,
     slack |-> Eager([c \in 1..ny |->
                  IF q.alternating[c] = 0 /\ q.slack[c] > es[c].v
                  THEN es[c].v ELSE q.slack[c]]),
     slackx |-> Eager([c \in 1..ny |->
                  IF q.alternating[c] = 0 /\ q.slack[c] > es[c].v
                  THEN x2 ELSE q.slackx[c]]),
     dev_abort |-> \/ q.dev_abort
                   \/ x2 \in q.s
                   \/ \E c \in 1..ny : q.alternating[c] = 0 /\ es[c].ovf]

\* The edges of row x under the labels of q.
KMEdges(w, q, x, ny) ==
    Eager([c \in 1..ny |-> EdgeSlack(q.lx[x], q.ly[c], w[x][c])])

RECURSIVE KMSearch(_, _, _, _, _)
KMExtend(w, yx, q, ny, fuel, y) ==
    IF fuel = 0 THEN KMFound(q, 0)
    ELSE IF yx[y] = 0 THEN KMFound(q, y)
    ELSE KMSearch(w, yx, KMAddRow(q, yx[y], ny, KMEdges(w, q, yx[y], ny)),
                  ny, fuel - 1)

KMStep(w, yx, q, ny, fuel, cand, y) ==
    KMExtend(w, yx,
             KMRelabel(q, ny, y,
                       IF cand = {} THEN 1 ELSE q.slackx[y],
                       IF cand = {} THEN I32Max ELSE q.slack[y]),
             ny, fuel, y)

KMScan(w, yx, q, ny, fuel, cand) ==
    KMStep(w, yx, q, ny, fuel, cand, KMColumn(q, cand))

\* The loop that grows the alternating tree of one root until it reaches a
\* free column y.  q = [lx, ly, s, alternating, slack, slackx, dev_abort].
KMSearch(w, yx, q, ny, fuel) ==
    KMScan(w, yx, q, ny, fuel, KMColumns(q, ny))

RECURSIVE KMAugment(_, _, _, _, _)
\* while y.is_some(): invert the edges along the augmenting path.
KMAugment(xy, yx, alternating, y, fuel) ==
    IF y = 0 THEN [xy |-> xy, yx |-> yx, fail |-> FALSE]
    ELSE IF fuel = 0 \/ alternating[y] = 0
    THEN [xy |-> xy, yx |-> yx, fail |-> TRUE]
    ELSE KMAugment([xy EXCEPT ![alternating[y]] = y],
                   [yx EXCEPT ![y] = alternating[y]],
                   alternating, xy[alternating[y]], fuel - 1)

\* The tree of a root before its search: s = {root}, every slack an edge of
\* the root.
KMRootTree(k, root, ny, es) ==
    [lx |-> k.lx, ly |-> k.ly, s |-> {root},
     alternating |-> Eager([c \in 1..ny |-> 0]),
     slack |-> Eager([c \in 1..ny |-> es[c].v]),
     slackx |-> Eager([c \in 1..ny |-> root]),
     dev_abort |-> k.dev_abort \/ \E c \in 1..ny : es[c].ovf]

RECURSIVE KMRoots(_, _, _, _, _)
KMRootDone(w, k, root, nx, ny, r, a) ==
    IF r.y = 0 \/ a.fail THEN [k EXCEPT !.fail = TRUE]
    ELSE KMRoots(w, [xy |-> a.xy, yx |-> a.yx, lx |-> r.lx, ly |-> r.ly,
                     dev_abort |-> r.dev_abort, fail |-> FALSE],
                 root + 1, nx, ny)

KMRootAugment(w, k, root, nx, ny, r) ==
    KMRootDone(w, k, root, nx, ny, r,
               KMAugment(k.xy, k.yx, r.alternating, r.y, KMFuel(nx, ny)))

\* for root in 0..nx.  k = [xy, yx, lx, ly, dev_abort, fail].
KMRoots(w, k, root, nx, ny) ==
    IF root > nx \/ k.fail THEN k
    ELSE KMRootAugment(w, k, root, nx, ny,
            KMSearch(w, k.yx, KMRootTree(k, root, ny, KMEdges(w, k, root, ny)),
                     ny, KMFuel(nx, ny)))

\* The greatest element of a non-empty set of integers.
Max(S) == CHOOSE v \in S : \A u \in S : u <= v

\* The labels and the empty matching the roots start from:
\* lx[x] = max of row x, ly = 0.
KMStart(w, nx, ny) ==
    [xy |-> Eager([x \in 1..nx |-> 0]), yx |-> Eager([y \in 1..ny |-> 0]),
     lx |-> Eager([x \in 1..nx |-> Max({w[x][y] : y \in 1..ny})]),
     ly |-> Eager([y \in 1..ny |-> 0]),
     dev_abort |-> FALSE, fail |-> FALSE]

\* (lx.sum() + ly.sum(), xy.unwrap()), and -total in kuhn_munkres_min.
KMResult(k, nx, sum_lx, sum_ly) ==
    [assignments |-> k.xy,
     dev_abort |-> \/ k.dev_abort \/ sum_lx.ovf \/ sum_ly.ovf
                   \/ AddOverflows(sum_lx.v, sum_ly.v)
                   \/ Add32(sum_lx.v, sum_ly.v) = I32Min,
     \* xy.into_iter().map(Option::unwrap)
     fail |-> k.fail \/ \E x \in 1..nx : k.xy[x] = 0]

KMTotal(k, nx) ==
    KMResult(k, nx, Sum32(k.lx, 1, [v |-> 0, ovf |-> FALSE]),
                    Sum32(k.ly, 1, [v |-> 0, ovf |-> FALSE]))

\* kuhn_munkres(&weights.neg()) for nx <= ny:
\* [assignments, dev_abort, fail], assignments[x] the column of row x.
kuhn_munkres(w, nx, ny) == KMTotal(KMRoots(w, KMStart(w, nx, ny), 1, nx, ny), nx)

kuhn_munkres_min(int_matrix, nx, ny) ==
    kuhn_munkres(Eager([x \in 1..nx |-> Eager([y \in 1..ny |-> -int_matrix[x][y]])]), nx, ny)

(***************************************************************************)
(* CentroidTracker::update.                                                *)
(***************************************************************************)
\* An apply loop without the sentinel test.
NotForbidden_any(cell) == TRUE

\* int_matrix[obj_idx][input_idx] != i32::MAX
NotForbidden(cell) == cell # I32Max

\* An applied match that does not mark its input as used.
Matched_unmarked(m, oid, input, j) ==
    [t |-> ApplyMatch(m.t, oid, input[j]),
     used_inputs |-> m.used_inputs,
     matched |-> Insert(m.matched, oid, j)]

\* obj.centroids.push(..); disappeared.remove(oid); matched_oids.insert(oid);
\* used_inputs.insert(input_idx)
Matched(m, oid, input, j) ==
    [t |-> ApplyMatch(m.t, oid, input[j]),
     used_inputs |-> m.used_inputs \cup {j},
     matched |-> Insert(m.matched, oid, j)]

RECURSIVE ApplyAssignments(_, _, _, _, _, _)
\* for (obj_idx, &input_idx) in assignments.iter().enumerate(): apply the
\* assignment unless its cell is the sentinel.
ApplyAssignments(m, assignments, int_matrix, oids, input, i) ==
    IF i > Len(assignments) THEN m
    ELSE ApplyAssignments(
            IF NotForbidden(int_matrix[i][assignments[i]])
            THEN Matched(m, oids[i], input, assignments[i])
            ELSE m,
            assignments, int_matrix, oids, input, i + 1)

\* Steps 4 and 5 and the return of update, after the matches m.
FinishUpdate(m, oids, input, md, path) ==
    Outcome("Ok",
            RegisterAll(HandleDisappeared(m.t, oids, DOMAIN m.matched, md, 1),
                        input, m.used_inputs, 1),
            m.matched, path)

\* The outcomes once kuhn_munkres_min has run: a failed unwrap aborts every
\* build, an overflow or a failed debug assertion a dev build only.
AfterMatching(t, input, oids, md, int_matrix, km) ==
    (IF km.fail \/ km.dev_abort
     THEN {Outcome("Panic", t, <<>>, "optimal")} ELSE {})
    \cup (IF km.fail THEN {}
          ELSE {FinishUpdate(ApplyAssignments(NoMatches(t), km.assignments,
                                              int_matrix, oids, input, 1),
                             oids, input, md, "optimal")})

MatchOptimally(t, input, oids, md, int_matrix) ==
    AfterMatching(t, input, oids, md, int_matrix,
                  kuhn_munkres_min(int_matrix, Len(oids), Len(input)))

RECURSIVE Perms(_)
\* The orders in which the keys S of a HashMap can be visited
\* (self.objects.keys().copied().collect()).
Perms(S) ==
    IF S = {} THEN {<<>>}
    ELSE UNION {{<<x>> \o p : p \in Perms(S \ {x})} : x \in S}

\* The optimal path for every order of the rows.
OptimalOver(t, input, md, cells) ==
    UNION {MatchOptimally(t, input, oids, md, IntMatrix(cells, oids)) :
            oids \in Perms(DOMAIN t.objects)}

\* An optimal path that counts the misses before it reports the error.
optimal_update_counting(t, input, md) ==
    IF Len(input) = 0
    THEN {Outcome("Err",
                  HandleDisappeared(t, CHOOSE p \in Perms(DOMAIN t.objects) : TRUE,
                                    {}, md, 1),
                  <<>>, "optimal")}
    ELSE IF Cardinality(DOMAIN t.objects) > Len(input)
    THEN {Outcome("Panic", t, <<>>, "optimal")}
    ELSE OptimalOver(t, input, md, CostCells(t.objects, input))

\* The outcomes of the optimal path (lines 77-179).  Matrix::from_rows refuses
\* rows without columns (the `?` returns the error) and kuhn_munkres asserts
\* rows <= columns, whatever the order of the rows; otherwise the rows of the
\* matrix are the keys in the order the HashMap yields them.
optimal_update(t, input, md) ==
    IF Len(input) = 0 THEN {Outcome("Err", t, <<>>, "optimal")}
    ELSE IF Cardinality(DOMAIN t.objects) > Len(input)
    THEN {Outcome("Panic", t, <<>>, "optimal")}
    ELSE OptimalOver(t, input, md, CostCells(t.objects, input))

\* self.objects.len() <= 5 && input.len() <= 5
TakesGreedyPath(n_objects, n_input) ==
    n_objects <= GreedyLimit /\ n_input <= GreedyLimit

\* update once input is collected (lines 64-179).
UpdateWith(t, input, md) ==
    IF DOMAIN t.objects = {}
    THEN {Outcome("Ok", RegisterAll(t, input, {}, 1), <<>>, "empty")}
    ELSE IF TakesGreedyPath(Cardinality(DOMAIN t.objects), Len(input))
    THEN {greedy_update(t, input, oids, md) : oids \in Perms(DOMAIN t.objects)}
    ELSE optimal_update(t, input, md)

\* The outcomes of update(rects) on tracker state t.
update(t, rects, md) ==
    UpdateWith(t, [j \in 1..Len(rects) |-> from_rect(rects[j])], md)

\* A current_centroids that hands back the first centroid of each history.
current_centroids_first(t) ==
    [oid \in {o \in DOMAIN t.objects : Len(t.objects[o].centroids) > 0} |->
        t.objects[oid].centroids[1]]

\* current_centroids(): filter_map over the objects, oid -> last centroid of
\* every object whose history has a last centroid.
current_centroids(t) ==
    [oid \in {o \in DOMAIN t.objects : Len(t.objects[o].centroids) > 0} |->
        Last(t.objects[oid].centroids)]

(***************************************************************************)
(* The crossing pass of Net::process_frame (net.rs lines 172-201).         *)
(***************************************************************************)
\* A direction that is Up on equal heights.
DirectionOf_le(prev_y, current_y) == IF current_y <= prev_y THEN "Up" ELSE "Down"

\* if current_y < prev_y { Up } else { Down }
DirectionOf(prev_y, current_y) == IF current_y < prev_y THEN "Up" ELSE "Down"

\* A crossing test that includes the line itself.
CrossingEvent_inclusive(direction, current_y) ==
    IF direction = "Up" /\ current_y <= mid_y THEN "entered"
    ELSE IF direction = "Down" /\ current_y >= mid_y THEN "exited"
    ELSE "none"

\* The event of an uncounted object, or "none".
CrossingEvent(direction, current_y) ==
    IF direction = "Up" /\ current_y < mid_y THEN "entered"
    ELSE IF direction = "Down" /\ current_y > mid_y THEN "exited"
    ELSE "none"

\* A crossing test that does not read the latch.
EventOf_unlatched(obj, centroid) ==
    IF Len(obj.centroids) >= 2
    THEN IF centroid.y < obj.centroids[Len(obj.centroids) - 1].y
         THEN (IF centroid.y < mid_y THEN "entered" ELSE "none")
         ELSE (IF centroid.y > mid_y THEN "exited" ELSE "none")
    ELSE "none"

\* if !obj.counted { ... }
EventOf(obj, centroid) ==
    LET n == Len(obj.centroids)
    IN  IF n >= 2 /\ ~obj.counted
        THEN CrossingEvent(DirectionOf(obj.centroids[n - 1].y, centroid.y),
                           centroid.y)
        ELSE "none"

\* A history that is never trimmed.
Trim_never(centroids) == centroids

\* A trim that removes the newest centroid.
Trim_newest(centroids) ==
    IF Len(centroids) > HistoryCap THEN SubSeq(centroids, 1, Len(centroids) - 1)
    ELSE centroids

\* if obj.centroids.len() > 50 { obj.centroids.remove(0); }
Trim(centroids) == IF Len(centroids) > HistoryCap THEN Tail(centroids) ELSE centroids

\* A loop body that forgets the direction of an object that stands still.
CrossObject_forgetful(obj, centroid) ==
    LET n == Len(obj.centroids)
        o1 == IF n >= 2
              THEN [obj EXCEPT
                      !.counted = IF EventOf(obj, centroid) # "none" THEN TRUE ELSE @,
                      !.last_direction =
                          IF obj.centroids[n - 1].y = centroid.y THEN "None"
                          ELSE DirectionOf(obj.centroids[n - 1].y, centroid.y)]
              ELSE obj
    IN  [o1 EXCEPT !.centroids = Trim(@)]

\* A loop body that leaves an object uncounted the first time it evaluates it.
CrossObject_skipping(obj, centroid) ==
    LET n == Len(obj.centroids)
        o1 == IF n >= 2
              THEN [obj EXCEPT
                      !.counted = IF obj.last_direction # "None"
                                     /\ EventOf(obj, centroid) # "none"
                                  THEN TRUE ELSE @,
                      !.last_direction =
                          DirectionOf(obj.centroids[n - 1].y, centroid.y)]
              ELSE obj
    IN  [o1 EXCEPT !.centroids = Trim(@)]

\* The body of the loop for one object and its returned centroid.
CrossObject(obj, centroid) ==
    LET n == Len(obj.centroids)
        o1 == IF n >= 2
              THEN [obj EXCEPT
                      !.counted = IF EventOf(obj, centroid) # "none" THEN TRUE ELSE @,
                      !.last_direction =
                          DirectionOf(obj.centroids[n - 1].y, centroid.y)]
              ELSE obj
    IN  [o1 EXCEPT !.centroids = Trim(@)]

\* for (object_id, centroid) in &objects { ... }: each object is visited once
\* and only its own record is read and written.
CrossingPass(t, returned) ==
    [oid \in DOMAIN t.objects |->
        IF oid \in DOMAIN returned THEN CrossObject(t.objects[oid], returned[oid])
        ELSE t.objects[oid]]

CrossingEvents(t, returned) ==
    {<<oid, EventOf(t.objects[oid], returned[oid])>> :
        oid \in {o \in DOMAIN returned \cap DOMAIN t.objects :
                    EventOf(t.objects[o], returned[o]) # "none"}}

(***************************************************************************)
(* The logging library (src/log/src/lib.rs, src/log/src/logger.rs).        *)
(***************************************************************************)
Threads == {"main", "worker"}

LogLevel == {"Info", "Warning", "Error", "Critical", "Debug", "NoLog"}

\* The value the two matches of partial_cmp give a level.
LevelValue(l) ==
    CASE l = "NoLog" -> 0
      [] l = "Debug" -> 1
      [] l = "Info" -> 2
      [] l = "Warning" -> 3
      [] l = "Error" -> 4
      [] l = "Critical" -> 5

\* i32::partial_cmp
Cmp(a, b) == IF a < b THEN "Less" ELSE IF a = b THEN "Equal" ELSE "Greater"

\* A comparison of the levels in their own order.
partial_cmp_natural(self, other) == Cmp(LevelValue(self), LevelValue(other))

\* other_value.partial_cmp(&self_value)
partial_cmp(self, other) == Cmp(LevelValue(other), LevelValue(self))

\* a >= b of PartialOrd: partial_cmp gives Greater or Equal.
Ge(a, b) == partial_cmp(a, b) \in {"Greater", "Equal"}

\* AdvancedLogger::log prints when self.level >= level.
Emits(self_level, level) == Ge(self_level, level)

NotInSetLogger == [pc |-> "idle", logger |-> 0]

NoLogCall == [thread |-> "none", logger |-> 0, self_level |-> "none",
              level |-> "none", emitted |-> FALSE]

LogInit ==
    /\ LOGGER_INIT = "incomplete"
    /\ LOGGER = [t \in Threads |-> 0]
    /\ loggers = <<>>
    /\ set_call = [t \in Threads |-> NotInSetLogger]
    /\ ok_count = 0
    /\ last_log = NoLogCall
    /\ log_calls = 0

(***************************************************************************)
(* Net::process_frame.                                                     *)
(***************************************************************************)
Tracker == [objects |-> objects, disappeared |-> disappeared, next_oid |-> next_oid]

\* returned is the map update handed back (none on Err and on a panic).
FrameReport(kind, rects, out, events) ==
    [kind |-> kind, result |-> out.result, path |-> out.path, rects |-> rects,
     matched |-> out.matched, pre |-> Tracker, events |-> events,
     returned |-> IF out.result = "Ok" THEN current_centroids(out.t) ELSE <<>>]

\* The consecutive update calls each identity went without a match, counted
\* up to max_disappeared + 1.
StreakAfter(out) ==
    [o \in 0..(out.t.next_oid - 1) |->
        IF o \notin DOMAIN miss_streak \/ o \in DOMAIN out.matched THEN 0
        ELSE IF o \in Oids /\ miss_streak[o] <= max_disappeared
             THEN miss_streak[o] + 1
             ELSE miss_streak[o]]

\* The consecutive update calls, up to this one, that were given no
\* detection, counted up to max_disappeared + 1.
EmptyStreakAfter(out, rects) ==
    IF out.result = "Panic" THEN empty_streak
    ELSE IF Len(rects) # 0 THEN 0
    ELSE IF empty_streak <= max_disappeared THEN empty_streak + 1
    ELSE empty_streak

\* The identities matched, in this call or an earlier one, while they held a
\* miss entry.
RematchedAfter(out) ==
    rematched \cup (DOMAIN out.matched \cap DOMAIN disappeared)

\* Every centroid pushed to the history of each registered object so far: the
\* one register gave it, then one for each match.
PushedAfter(out, rects) ==
    [o \in DOMAIN out.t.objects |->
        IF o \notin DOMAIN pushed THEN out.t.objects[o].centroids
        ELSE IF o \in DOMAIN out.matched
             THEN Append(pushed[o], from_rect(rects[out.matched[o]]))
             ELSE pushed[o]]

EmittedAfter(out, events) ==
    [o \in 0..(out.t.next_oid - 1) |->
        (IF o \in DOMAIN emitted THEN emitted[o] ELSE 0)
            + Cardinality({e \in events : e[1] = o})]

\* process_frame from line 169 on: update(&rects)?, the crossing pass, and
\* frame_count += 1.  A panic ends the process; an Err returns before the
\* crossing pass and before frame_count is incremented.
TrackAndCount(kind, rects) ==
    \E out \in update(Tracker, rects, max_disappeared) :
        LET returned == current_centroids(out.t)
            events == IF out.result = "Ok" THEN CrossingEvents(out.t, returned)
                      ELSE {}
        IN  /\ objects' = IF out.result = "Ok" THEN CrossingPass(out.t, returned)
                          ELSE objects
            /\ disappeared' = out.t.disappeared
            /\ next_oid' = out.t.next_oid
            /\ frame_count' = IF out.result = "Ok" THEN frame_count + 1
                              ELSE frame_count
            /\ status' = IF out.result = "Panic" THEN "panicked" ELSE status
            /\ last' = FrameReport(kind, rects, out, events)
            /\ miss_streak' = IF out.result = "Panic" THEN miss_streak
                              ELSE StreakAfter(out)
            /\ empty_streak' = EmptyStreakAfter(out, rects)
            /\ emitted' = EmittedAfter(out, events)
            /\ rematched' = RematchedAfter(out)
            /\ pushed' = PushedAfter(out, rects)

\* frame_count % skip_frames == 0: the trackers are rebuilt from the accepted
\* detections (create_tracker pushes to trackers only) and tracked_rects is
\* left cleared.
DetectionFrame ==
    /\ status = "running"
    /\ calls < MaxCalls(env)
    /\ frame_count % skip_frames = 0
    /\ \E accepted \in 0..MaxTrackers(env) : trackers' = accepted
    /\ tracked_rects' = <<>>
    /\ TrackAndCount("detect", <<>>)
    /\ calls' = calls + 1
    /\ UNCHANGED <<max_disappeared, skip_frames, env>>
    /\ UNCHANGED <<logvars, auxvars>>

\* Otherwise update_trackers keeps the trackers whose update succeeded and
\* their boxes.
TrackingFrame ==
    /\ status = "running"
    /\ calls < MaxCalls(env)
    /\ frame_count % skip_frames # 0
    /\ \E report \in Reports(env, trackers) :
          /\ trackers' = Len(report)
          /\ tracked_rects' = report
          /\ TrackAndCount("track", report)
    /\ calls' = calls + 1
    /\ UNCHANGED <<max_disappeared, skip_frames, env>>
    /\ UNCHANGED <<logvars, auxvars>>

\* No update call in progress.
NoUpdate ==
    [phase |-> "idle", rects |-> <<>>, input |-> <<>>, oids |-> <<>>,
     cost_matrix |-> <<>>, int_matrix |-> <<>>, assignments |-> <<>>,
     scanned |-> {}, path |-> "none", matched |-> <<>>]

\* SynchronizedRecorder::start has created the watch channel holding false
\* and spawned the two tasks, and is in its select!.
Started ==
    [start |-> "select", shutdown |-> FALSE, changed |-> FALSE,
     ctrl_c |-> FALSE, video |-> "running", serial |-> "running",
     frames |-> 0, polls |-> 0]

NoFrame ==
    [kind |-> "none", result |-> "none", path |-> "none", rects |-> <<>>,
     matched |-> <<>>, pre |-> [objects |-> <<>>, disappeared |-> <<>>, next_oid |-> 0],
     events |-> {}, returned |-> <<>>]

\* Net::new: CentroidTracker::new(max_disappeared, 20.), no tracker, frame 0.
Init ==
    /\ env \in Envs
    /\ max_disappeared \in MaxDisappearedArgs(env)
    /\ skip_frames \in StepArgs(env)
    /\ next_oid = 0
    /\ objects = <<>>
    /\ disappeared = <<>>
    /\ trackers = 0
    /\ tracked_rects = <<>>
    /\ frame_count = 0
    /\ status = "running"
    /\ calls = 0
    /\ last = NoFrame
    /\ miss_streak = <<>>
    /\ empty_streak = 0
    /\ emitted = <<>>
    /\ rematched = {}
    /\ pushed = <<>>
    /\ LogInit
    /\ int_cell = NoCell
    /\ par = NoUpdate
    /\ recorder = Started

Next == DetectionFrame \/ TrackingFrame

Spec == Init /\ [][Next]_vars

InitSmall == Init /\ env = "small"
SpecSmall == InitSmall /\ [][Next]_vars

InitLong == Init /\ env = "long"
SpecLong == InitLong /\ [][Next]_vars

InitCrowd == Init /\ env = "crowd"
SpecCrowd == InitCrowd /\ [][Next]_vars

InitMalformed == Init /\ env = "malformed"
SpecMalformed == InitMalformed /\ [][Next]_vars

InitTies == Init /\ env = "ties"
SpecTies == InitTies /\ [][Next]_vars

InitWindow == Init /\ env = "window"
SpecWindow == InitWindow /\ [][Next]_vars

(***************************************************************************)
(* set_logger, logger() and the log! macro, run by the threads of one      *)
(* process.  set_logger is followed step by step: the is_completed test,   *)
(* the entry into call_once, the closure, the return.                      *)
(***************************************************************************)
\* A thread calls set_logger(Arc::new(AdvancedLogger::new(level, None))) and
\* makes the test of line 43.
SetLoggerEnter(t) ==
    /\ set_call[t].pc = "idle"
    /\ Len(loggers) < MaxSetLoggerCalls
    /\ \E level \in LogLevel : loggers' = Append(loggers, level)
    /\ set_call' = [set_call EXCEPT ![t] =
                       IF LOGGER_INIT = "complete" THEN NotInSetLogger
                       ELSE [pc |-> "checked", logger |-> Len(loggers) + 1]]
    /\ UNCHANGED <<LOGGER_INIT, LOGGER, ok_count, last_log, log_calls>>
    /\ UNCHANGED <<trackvars, auxvars>>

\* LOGGER_INIT.call_once: the first caller runs the closure, a caller that
\* finds it running waits, a caller that finds it completed goes on.
CallOnce(t) ==
    /\ set_call[t].pc = "checked"
    /\ LOGGER_INIT # "running"
    /\ LOGGER_INIT' = IF LOGGER_INIT = "incomplete" THEN "running" ELSE LOGGER_INIT
    /\ set_call' = [set_call EXCEPT ![t].pc =
                       IF LOGGER_INIT = "incomplete" THEN "closure" ELSE "returning"]
    /\ UNCHANGED <<LOGGER, loggers, ok_count, last_log, log_calls>>
    /\ UNCHANGED <<trackvars, auxvars>>

\* The closure: LOGGER.with(|cell| *cell.borrow_mut() = Some(logger)), on
\* the LOGGER of the thread that runs it.
RunClosure(t) ==
    /\ set_call[t].pc = "closure"
    /\ LOGGER' = [LOGGER EXCEPT ![t] = set_call[t].logger]
    /\ LOGGER_INIT' = "complete"
    /\ set_call' = [set_call EXCEPT ![t].pc = "returning"]
    /\ UNCHANGED <<loggers, ok_count, last_log, log_calls>>
    /\ UNCHANGED <<trackvars, auxvars>>

\* Ok(()) of line 53.
ReturnOk(t) ==
    /\ set_call[t].pc = "returning"
    /\ ok_count' = ok_count + 1
    /\ set_call' = [set_call EXCEPT ![t] = NotInSetLogger]
    /\ UNCHANGED <<LOGGER_INIT, LOGGER, loggers, last_log, log_calls>>
    /\ UNCHANGED <<trackvars, auxvars>>

\* logger(): the logger of the calling thread's LOGGER.
logger(t) == LOGGER[t]

\* log!(level, ..): if let Some(logger) = logger() { logger.log(level, ..) }
Log(t) ==
    /\ set_call[t].pc = "idle"
    /\ log_calls < MaxLogCalls
    /\ log_calls' = log_calls + 1
    /\ \E level \in LogLevel :
          last_log' =
              IF logger(t) = 0
              THEN [thread |-> t, logger |-> 0, self_level |-> "none",
                    level |-> level, emitted |-> FALSE]
              ELSE [thread |-> t, logger |-> logger(t),
                    self_level |-> loggers[logger(t)], level |-> level,
                    emitted |-> Emits(loggers[logger(t)], level)]
    /\ UNCHANGED <<LOGGER_INIT, LOGGER, loggers, set_call, ok_count>>
    /\ UNCHANGED <<trackvars, auxvars>>

\* if let Some(logger) = logger() { logger.set_level(level) }
SetLevel(t) ==
    /\ set_call[t].pc = "idle"
    /\ log_calls < MaxLogCalls
    /\ logger(t) # 0
    /\ log_calls' = log_calls + 1
    /\ \E level \in LogLevel : loggers' = [loggers EXCEPT ![logger(t)] = level]
    /\ UNCHANGED <<LOGGER_INIT, LOGGER, set_call, ok_count, last_log>>
    /\ UNCHANGED <<trackvars, auxvars>>

LogNext ==
    \E t \in Threads :
        \/ SetLoggerEnter(t)
        \/ CallOnce(t)
        \/ RunClosure(t)
        \/ ReturnOk(t)
        \/ Log(t)
        \/ SetLevel(t)

InitLog == Init /\ env = "long"
SpecLog == InitLog /\ [][LogNext]_vars

(***************************************************************************)
(* CentroidTracker::update step by step: the rayon workers of its parallel *)
(* iterators run in any order, one item each; a parallel iterator is       *)
(* finished before the statement after it starts.                          *)
(***************************************************************************)
\* f32::INFINITY in a cell of cost_matrix.
Infinity == -1

\* What this model leaves alone while it follows one update call.
netvars == <<max_disappeared, trackers, tracked_rects, skip_frames, frame_count,
             env, calls, last, miss_streak, empty_streak, emitted, rematched,
             pushed>>

\* The cells of an n x m matrix.
Cells(n, m) == (1..n) \X (1..m)

\* The lists update is called with: a first frame of a few boxes, then
\* frames of six, enough for the optimal path.
WorkerReports ==
    IF DOMAIN objects = {}
    THEN {PrefixReport(n, shift) : n \in 1..MaxObjectsWorkers, shift \in CrowdShifts}
    ELSE {PrefixReport(GreedyLimit + 1, shift) : shift \in CrowdShifts}

\* update(&rects) is entered.
BeginUpdate ==
    /\ par.phase = "idle"
    /\ status = "running"
    /\ Cardinality(DOMAIN objects) <= MaxObjectsWorkers
    /\ \E rects \in WorkerReports :
          par' = [NoUpdate EXCEPT !.phase = "convert", !.rects = rects]
    /\ UNCHANGED <<next_oid, objects, disappeared, status, netvars, logvars, int_cell, recorder>>

\* rects.par_iter().map(|r| Centroid::from_rect(*r)): the worker of box j.
ConvertBox(j) ==
    /\ par.phase = "convert"
    /\ j \in (1..Len(par.rects)) \ DOMAIN par.input
    /\ par' = [par EXCEPT
                 !.input = Insert(@, j, from_rect(par.rects[j])),
                 !.phase = IF DOMAIN par.input \cup {j} = 1..Len(par.rects)
                           THEN "collected" ELSE "convert"]
    /\ UNCHANGED <<next_oid, objects, disappeared, status, netvars, logvars, int_cell, recorder>>

\* if self.objects.is_empty() { register every centroid; return }
RegisterFirst ==
    /\ par.phase = "collected"
    /\ DOMAIN objects = {}
    /\ LET t == RegisterAll(Tracker, par.input, {}, 1)
       IN  /\ objects' = t.objects
           /\ disappeared' = t.disappeared
           /\ next_oid' = t.next_oid
    /\ par' = [NoUpdate EXCEPT !.path = "empty"]
    /\ UNCHANGED <<status, netvars, logvars, int_cell, recorder>>

\* The optimal path is taken: cost_matrix is allocated and oids collected
\* from the keys in the order the HashMap yields them.
StartMatrix ==
    /\ par.phase = "collected"
    /\ DOMAIN objects # {}
    /\ ~TakesGreedyPath(Cardinality(DOMAIN objects), Len(par.input))
    /\ \E oids \in Perms(DOMAIN objects) :
          par' = [par EXCEPT !.phase = "cost", !.oids = oids]
    /\ UNCHANGED <<next_oid, objects, disappeared, status, netvars, logvars, int_cell, recorder>>

\* The worker of cell (i, j) of cost_matrix.
FillCost(i, j) ==
    /\ par.phase = "cost"
    /\ <<i, j>> \in Cells(Len(par.oids), Len(par.input)) \ DOMAIN par.cost_matrix
    /\ LET distance == distance_to(Last(objects[par.oids[i]].centroids), par.input[j])
       IN  par' = [par EXCEPT
                     !.cost_matrix =
                         Insert(@, <<i, j>>,
                                IF WithinMaxDistance(distance) THEN distance
                                ELSE Infinity),
                     !.phase = IF DOMAIN par.cost_matrix \cup {<<i, j>>}
                                    = Cells(Len(par.oids), Len(par.input))
                               THEN "quantise" ELSE "cost"]
    /\ UNCHANGED <<next_oid, objects, disappeared, status, netvars, logvars, int_cell, recorder>>

\* The worker of cell (i, j) of int_matrix.
QuantiseCell(i, j) ==
    /\ par.phase = "quantise"
    /\ <<i, j>> \in Cells(Len(par.oids), Len(par.input)) \ DOMAIN par.int_matrix
    /\ par' = [par EXCEPT
                 !.int_matrix =
                     Insert(@, <<i, j>>,
                            IF par.cost_matrix[<<i, j>>] = Infinity THEN I32Max
                            ELSE Quantise(par.cost_matrix[<<i, j>>])),
                 !.phase = IF DOMAIN par.int_matrix \cup {<<i, j>>}
                                = Cells(Len(par.oids), Len(par.input))
                           THEN "match" ELSE "quantise"]
    /\ UNCHANGED <<next_oid, objects, disappeared, status, netvars, logvars, int_cell, recorder>>

\* int_matrix as the rows handed to Matrix::from_rows.
Rows(p) ==
    Eager([i \in 1..Len(p.oids) |->
        Eager([j \in 1..Len(p.input) |-> p.int_matrix[<<i, j>>]])])

\* Matrix::from_rows(..)? and kuhn_munkres_min(&matrix), on the calling
\* thread.  An abort ends the process.
Match ==
    /\ par.phase = "match"
    /\ LET km == kuhn_munkres_min(Rows(par), Len(par.oids), Len(par.input))
       IN  \/ /\ km.fail \/ km.dev_abort
              /\ status' = "panicked"
              /\ par' = [NoUpdate EXCEPT !.path = "optimal"]
           \/ /\ ~km.fail
              /\ status' = status
              /\ par' = [par EXCEPT !.phase = IF Len(km.assignments) = 0
                                              THEN "apply" ELSE "scan",
                                    !.assignments = km.assignments]
    /\ UNCHANGED <<next_oid, objects, disappeared, netvars, logvars, int_cell, recorder>>

\* A scan whose closure applies the match it finds.
ScanBody_applying(t, oid, centroid, forbidden) ==
    IF forbidden THEN t ELSE ApplyMatch(t, oid, centroid)

\* The closure of assignments.par_iter().enumerate().for_each: it reads
\* oids, input and int_matrix, and the branch it takes is empty.
ScanBody(t, oid, centroid, forbidden) == t

\* The worker of assignment k.
ScanAssignment(k) ==
    /\ par.phase = "scan"
    /\ k \in (1..Len(par.assignments)) \ par.scanned
    /\ LET t == ScanBody(Tracker, par.oids[k], par.input[par.assignments[k]],
                         ~NotForbidden(par.int_matrix[<<k, par.assignments[k]>>]))
       IN  /\ objects' = t.objects
           /\ disappeared' = t.disappeared
           /\ next_oid' = t.next_oid
    /\ par' = [par EXCEPT
                 !.scanned = @ \cup {k},
                 !.phase = IF par.scanned \cup {k} = 1..Len(par.assignments)
                           THEN "apply" ELSE "scan"]
    /\ UNCHANGED <<status, netvars, logvars, int_cell, recorder>>

\* Lines 139-179 on the calling thread: the matches are applied, the misses
\* counted and the new objects registered, one after the other.
ApplySequentially ==
    /\ par.phase = "apply"
    /\ LET out == FinishUpdate(
                     ApplyAssignments(NoMatches(Tracker), par.assignments,
                                      Rows(par), par.oids, par.input, 1),
                     par.oids, par.input, max_disappeared, "optimal")
       IN  /\ objects' = out.t.objects
           /\ disappeared' = out.t.disappeared
           /\ next_oid' = out.t.next_oid
           /\ par' = [NoUpdate EXCEPT !.path = "optimal", !.matched = out.matched]
    /\ UNCHANGED <<status, netvars, logvars, int_cell, recorder>>

WorkersNext ==
    \/ BeginUpdate
    \/ \E j \in 1..(GreedyLimit + 1) : ConvertBox(j)
    \/ RegisterFirst
    \/ StartMatrix
    \/ \E i \in 1..MaxObjectsWorkers, j \in 1..(GreedyLimit + 1) : FillCost(i, j)
    \/ \E i \in 1..MaxObjectsWorkers, j \in 1..(GreedyLimit + 1) : QuantiseCell(i, j)
    \/ Match
    \/ \E k \in 1..MaxObjectsWorkers : ScanAssignment(k)
    \/ ApplySequentially

InitWorkers == Init /\ env = "crowd"
SpecWorkers == InitWorkers /\ [][WorkersNext]_vars

(***************************************************************************)
(* SynchronizedRecorder (src/src/recorder.rs): start, the video task on a  *)
(* blocking thread, the RFID task on the runtime, and the watch channel    *)
(* `shutdown` between them.  `changed` says that the channel holds a value *)
(* shutdown_rx has not seen.                                               *)
(***************************************************************************)
Terminated == {"done", "failed"}

\* The ctrl_c branch of select!: shutdown_tx.send(true), which succeeds
\* while shutdown_rx lives.  The two join handles are dropped with the
\* select!, which detaches the tasks.
CtrlC ==
    /\ recorder.start = "select"
    /\ recorder' = [recorder EXCEPT !.start = "waiting", !.ctrl_c = TRUE,
                                    !.shutdown = TRUE, !.changed = TRUE]
    /\ UNCHANGED <<trackvars, logvars, int_cell, par>>

\* A join-handle branch of select!: a task has ended.  Its error is
\* returned by the `?`; its Ok lets start go on to the wait.
TaskEnded ==
    /\ recorder.start = "select"
    /\ recorder.video \in Terminated \/ recorder.serial \in Terminated
    /\ recorder' = [recorder EXCEPT
                      !.start = IF "failed" \in {recorder.video, recorder.serial}
                                THEN "returned Err" ELSE "waiting"]
    /\ UNCHANGED <<trackvars, logvars, int_cell, par>>

\* shutdown_rx.changed().await?, then "All tasks completed" and Ok(()).
Changed ==
    /\ recorder.start = "waiting"
    /\ recorder.changed
    /\ recorder' = [recorder EXCEPT !.start = "returned Ok", !.changed = FALSE]
    /\ UNCHANGED <<trackvars, logvars, int_cell, par>>

\* One turn of the video loop: !*shutdown.borrow(), then a frame is read
\* and written.
VideoFrame ==
    /\ recorder.video = "running"
    /\ ~recorder.shutdown
    /\ recorder.frames < MaxFrames
    /\ recorder' = [recorder EXCEPT !.frames = @ + 1]
    /\ UNCHANGED <<trackvars, logvars, int_cell, par>>

\* A `?` of video_task returns an error.
VideoFails ==
    /\ recorder.video = "running"
    /\ recorder' = [recorder EXCEPT !.video = "failed"]
    /\ UNCHANGED <<trackvars, logvars, int_cell, par>>

\* The video loop reads true from the channel and the task returns Ok(()).
VideoExits ==
    /\ recorder.video = "running"
    /\ recorder.shutdown
    /\ recorder' = [recorder EXCEPT !.video = "done"]
    /\ UNCHANGED <<trackvars, logvars, int_cell, par>>

\* One turn of the RFID loop: !*shutdown.borrow(), interval.tick().await and
\* a poll.
SerialPoll ==
    /\ recorder.serial = "running"
    /\ ~recorder.shutdown
    /\ recorder.polls < MaxPolls
    /\ recorder' = [recorder EXCEPT !.polls = @ + 1]
    /\ UNCHANGED <<trackvars, logvars, int_cell, par>>

\* A `?` of serial_task returns an error.
SerialFails ==
    /\ recorder.serial = "running"
    /\ recorder' = [recorder EXCEPT !.serial = "failed"]
    /\ UNCHANGED <<trackvars, logvars, int_cell, par>>

\* The RFID loop reads true from the channel and the task returns Ok(()).
SerialExits ==
    /\ recorder.serial = "running"
    /\ recorder.shutdown
    /\ recorder' = [recorder EXCEPT !.serial = "done"]
    /\ UNCHANGED <<trackvars, logvars, int_cell, par>>

RecorderNext ==
    \/ CtrlC
    \/ TaskEnded
    \/ Changed
    \/ VideoFrame
    \/ VideoFails
    \/ VideoExits
    \/ SerialPoll
    \/ SerialFails
    \/ SerialExits

InitRecorder == Init /\ env = "small" /\ max_disappeared = 1
SpecRecorder == InitRecorder /\ [][RecorderNext]_vars

(***************************************************************************)
(* The quantisation of one cost-matrix cell, for any max_distance a         *)
(* CentroidTracker can be built with.                                       *)
(***************************************************************************)
\* CentroidTracker::new(_, md)
NewTracker(md) ==
    /\ int_cell' = [NoCell EXCEPT !.max_distance = md]
    /\ UNCHANGED <<trackvars, logvars, par, recorder>>

\* One cell of cost_matrix and of int_matrix, for a pair d apart.
ComputeCell(d) ==
    /\ int_cell' = [int_cell EXCEPT !.computed = TRUE, !.distance = d,
                                    !.value = CostCellFor(int_cell.max_distance, d)]
    /\ UNCHANGED <<trackvars, logvars, par, recorder>>

QuantiseNext ==
    \/ \E md \in MaxDistanceArgs : NewTracker(md)
    \/ \E d \in {w \in WholeDistances : w <= MaxWholeDistance} : ComputeCell(d)

InitQuantise == Init /\ env = "crowd"
SpecQuantise == InitQuantise /\ [][QuantiseNext]_vars

(***************************************************************************)
(* The properties.  A step of the machine is one process_frame call;       *)
(* `last` holds the update call it made.                                   *)
(***************************************************************************)
\* The history of a registered object.
History(objs, o) == objs[o].centroids

\* The miss counter of an object; an object without an entry has none.
Misses(dis, o) == IF o \in DOMAIN dis THEN dis[o] ELSE 0

\* The centroids of the boxes of a list.
CentroidsOf(rects) == [j \in 1..Len(rects) |-> from_rect(rects[j])]

\* C1: an identity that went unmatched in at most max_disappeared
\* consecutive update calls is still registered, and one that went unmatched
\* in max_disappeared + 1 consecutive calls is in neither `objects` nor
\* `disappeared`, whatever the number of tracked objects.
C1_Disappearance ==
    \A o \in DOMAIN miss_streak :
        /\ miss_streak[o] <= max_disappeared => o \in DOMAIN objects
        /\ miss_streak[o] > max_disappeared =>
              o \notin DOMAIN objects /\ o \notin DOMAIN disappeared

\* C2: `counted` of a registered identity never goes back to false, and no
\* identity is ever logged more than one crossing event.
C2_Step ==
    \A o \in DOMAIN objects' :
        /\ (o \in DOMAIN objects /\ objects[o].counted) => objects'[o].counted
        /\ emitted'[o] <= 1
        /\ (o \in DOMAIN objects /\ objects[o].counted) =>
              \A e \in last'.events : e[1] # o

C2_CountingLatch == [][C2_Step]_vars

\* An identity that fired in an earlier frame is matched again in a frame in
\* which it moves up above the line, and nothing more is logged for it.
C2_Witness ==
    \E o \in DOMAIN objects \cap DOMAIN last.pre.objects :
        /\ last.pre.objects[o].counted
        /\ objects[o].counted
        /\ emitted[o] = 1
        /\ o \in DOMAIN last.matched
        /\ Last(History(objects, o)).y < mid_y
        /\ Last(History(objects, o)).y
              < History(objects, o)[Len(History(objects, o)) - 1].y

\* C3: every id in use is below next_oid and is the oid of its object;
\* next_oid never decreases; every object registered in a call takes an id of
\* its own at or above the next_oid the call started with, so an id assigned
\* before, deregistered or not, is never assigned again.
C3_Step ==
    /\ DOMAIN objects \subseteq 0..(next_oid - 1)
    /\ next_oid' >= next_oid
    /\ \A o \in DOMAIN objects' : objects'[o].oid = o
    /\ \A o \in DOMAIN objects' \ DOMAIN objects : next_oid <= o /\ o < next_oid'
    /\ Cardinality(DOMAIN objects' \ DOMAIN objects) = next_oid' - next_oid

C3_IdentitiesNeverReused == [][C3_Step]_vars

\* An object was registered by the last call with an id above that of an
\* identity deregistered in an earlier call.
C3_Witness ==
    \E o \in 0..(next_oid - 1), p \in DOMAIN objects :
        /\ o < last.pre.next_oid
        /\ o \notin DOMAIN last.pre.objects
        /\ p \notin DOMAIN last.pre.objects
        /\ p > o

\* C4: at the end of every frame every registered object holds at least 1
\* and at most 50 centroids.
C4_HistoryBound ==
    \A o \in DOMAIN objects :
        1 <= Len(History(objects, o)) /\ Len(History(objects, o)) <= HistoryCap

\* An object that held 50 centroids was matched in the last frame, and holds
\* 50 after it.
C4_Witness ==
    \E o \in DOMAIN objects \cap DOMAIN last.pre.objects :
        /\ Len(History(last.pre.objects, o)) = HistoryCap
        /\ o \in DOMAIN last.matched
        /\ last.result = "Ok"
        /\ Len(History(objects, o)) = HistoryCap

\* Object o of objs and input j are nearer than max_distance, or farther.
Nearer(objs, o, input, j) ==
    distance_to(Last(History(objs, o)), input[j]) < max_distance * max_distance

Farther(objs, o, input, j) ==
    distance_to(Last(History(objs, o)), input[j]) > max_distance * max_distance

\* Every object has one true successor nearer than max_distance, no two
\* objects share one, and every other pair is farther than max_distance.
TrueSuccessors(objs, input) ==
    /\ \A o \in DOMAIN objs :
          Cardinality({j \in 1..Len(input) : Nearer(objs, o, input, j)}) = 1
    /\ \A j \in 1..Len(input) :
          Cardinality({o \in DOMAIN objs : Nearer(objs, o, input, j)}) <= 1
    /\ \A o \in DOMAIN objs, j \in 1..Len(input) :
          Nearer(objs, o, input, j) \/ Farther(objs, o, input, j)

\* The history a frame leaves when c is appended to history h.
Appended(h, c) ==
    IF Len(h) + 1 > HistoryCap THEN Tail(Append(h, c)) ELSE Append(h, c)

\* C5: when every tracked object has one true successor among the
\* detections, the call returns Ok and every object is still registered with
\* exactly its true successor appended, on the greedy and on the optimal path.
C5_Step ==
    (/\ calls' = calls + 1
     /\ DOMAIN objects # {}
     /\ TrueSuccessors(objects, CentroidsOf(last'.rects)))
    => /\ last'.result = "Ok"
       /\ \A o \in DOMAIN objects :
            /\ o \in DOMAIN objects'
            /\ \E j \in 1..Len(last'.rects) :
                  /\ Nearer(objects, o, CentroidsOf(last'.rects), j)
                  /\ History(objects', o)
                        = Appended(History(objects, o), from_rect(last'.rects[j]))

C5_MatchingCorrectness == [][C5_Step]_vars

\* The optimal path matched each of more than five objects to its true
\* successor.
C5_Witness ==
    /\ last.path = "optimal"
    /\ last.result = "Ok"
    /\ Cardinality(DOMAIN last.pre.objects) > GreedyLimit
    /\ TrueSuccessors(last.pre.objects, CentroidsOf(last.rects))
    /\ DOMAIN last.matched = DOMAIN last.pre.objects
    /\ \E o \in DOMAIN last.pre.objects :
          Last(History(objects, o)) # Last(History(last.pre.objects, o))

\* The tracked ids in ascending order.
RECURSIVE Ascending(_)
Ascending(S) ==
    IF S = {} THEN <<>>
    ELSE <<CHOOSE o \in S : \A p \in S : o <= p>>
            \o Ascending(S \ {CHOOSE o \in S : \A p \in S : o <= p})

\* The assignments of n objects to distinct detections among m, n <= m.
Assignments(n, m) == {SubSeq(p, 1, n) : p \in Perms(1..m)}

\* Cost c with one more cell: a forbidden cell is counted, another is added.
WithCell(c, cell) ==
    IF cell = I32Max THEN [forbidden |-> c.forbidden + 1, sum |-> c.sum]
    ELSE [forbidden |-> c.forbidden, sum |-> c.sum + cell]

\* The cost of an assignment a of the objects ids (a[i] is the detection of
\* ids[i]): the number of forbidden cells it uses, and the sum of its other
\* cells.
RECURSIVE AssignmentCost(_, _, _, _)
AssignmentCost(cells, ids, a, i) ==
    IF i > Len(ids) THEN [forbidden |-> 0, sum |-> 0]
    ELSE WithCell(AssignmentCost(cells, ids, a, i + 1), cells[ids[i]][a[i]])

\* Cost c is below cost d: a forbidden cell costs more than any sum of
\* permitted cells.
CostBelow(c, d) ==
    \/ c.forbidden < d.forbidden
    \/ c.forbidden = d.forbidden /\ c.sum < d.sum

\* The matches an assignment applies: those on permitted cells.
AppliedOf(cells, ids, a) ==
    {<<ids[i], a[i]>> : i \in {k \in 1..Len(ids) : cells[ids[k]][a[k]] # I32Max}}

\* The least of a set of costs.
LeastCost(costs) == CHOOSE c \in costs : \A d \in costs : ~CostBelow(d, c)

\* The match sets of the assignments of cost least.
MatchSetsOfCost(cells, ids, assignments, least) ==
    {AppliedOf(cells, ids, a) :
        a \in {b \in assignments : AssignmentCost(cells, ids, b, 1) = least}}

LeastCostOf(cells, ids, assignments) ==
    LeastCost({AssignmentCost(cells, ids, a, 1) : a \in assignments})

MinCostOver(cells, ids, assignments) ==
    MatchSetsOfCost(cells, ids, assignments, LeastCostOf(cells, ids, assignments))

\* The match sets of the minimum-total-cost assignments, found by
\* enumeration.
MinCostMatchSets(cells, ids, m) ==
    MinCostOver(cells, ids, Assignments(Len(ids), m))

\* C6: an update call that takes the optimal path applies the matches of a
\* minimum-total-cost assignment of the quantised cost matrix: it does not
\* abort, and when it returns Ok no assignment costs less than the one whose
\* permitted cells it applied.
C6_OptimalAssignment ==
    last.path = "optimal" =>
        /\ last.result # "Panic"
        /\ last.result = "Ok" =>
              {<<o, last.matched[o]>> : o \in DOMAIN last.matched}
                 \in MinCostMatchSets(
                        CostCells(last.pre.objects, CentroidsOf(last.rects)),
                        Ascending(DOMAIN last.pre.objects), Len(last.rects))

\* C7: a call that returns Ok leaves every history as it was or appends to it
\* one detection no farther than max_distance from its last centroid; every
\* object it appends nothing to is counted as missed, and every detection it
\* appends to no object is registered as a new object.
C7_Step ==
    (calls' = calls + 1 /\ last'.result = "Ok") =>
        /\ \A o \in DOMAIN objects \cap DOMAIN objects' :
              \/ History(objects', o) = History(objects, o)
              \/ \E j \in 1..Len(last'.rects) :
                    /\ History(objects', o)
                          = Appended(History(objects, o), from_rect(last'.rects[j]))
                    /\ distance_to(Last(History(objects, o)),
                                   from_rect(last'.rects[j]))
                          <= max_distance * max_distance
        /\ \A o \in DOMAIN objects :
              \/ o \in DOMAIN objects'
                    /\ Len(History(objects', o)) > Len(History(objects, o))
              \/ o \notin DOMAIN objects' /\ Misses(disappeared, o) + 1 > max_disappeared
              \/ o \in DOMAIN objects'
                    /\ Misses(disappeared', o) = Misses(disappeared, o) + 1
        /\ next_oid' - next_oid
              = Len(last'.rects)
                  - Cardinality({o \in DOMAIN objects \cap DOMAIN objects' :
                        Len(History(objects', o)) > Len(History(objects, o))})

C7_NeverBeyondMaxDistance == [][C7_Step]_vars

\* On the optimal path every detection was farther than max_distance from
\* every object: nothing was appended, every object was counted as missed and
\* every detection was registered.
C7_Witness ==
    /\ last.path = "optimal"
    /\ last.result = "Ok"
    /\ Len(last.rects) > GreedyLimit
    /\ DOMAIN last.matched = {}
    /\ \A o \in DOMAIN last.pre.objects :
          /\ o \in DOMAIN objects
          /\ History(objects, o) = History(last.pre.objects, o)
          /\ Misses(disappeared, o) = Misses(last.pre.disappeared, o) + 1
    /\ next_oid = last.pre.next_oid + Len(last.rects)

\* The last centroid of a history of at least two centroids is above
\* (smaller y than) the one before it.
MovedUp(h) == h[Len(h)].y < h[Len(h) - 1].y

\* The crossing condition of a history of at least two centroids: moving up
\* and strictly above the line, or not moving up and strictly below it.
Crosses(h) ==
    \/ MovedUp(h) /\ h[Len(h)].y < 250
    \/ ~MovedUp(h) /\ h[Len(h)].y > 250

\* C8: in a frame that ends with an object holding at least two centroids
\* and that found it not counted, the object is counted and an event is logged
\* for it exactly when it moved up and is above y = 250 (entered) or did not
\* move up and is below y = 250 (exited); on the line nothing happens.
C8_Step ==
    (calls' = calls + 1 /\ last'.result = "Ok") =>
        \A o \in DOMAIN objects' :
            (/\ Len(History(objects', o)) >= 2
             /\ ~(o \in DOMAIN objects /\ objects[o].counted))
            => /\ objects'[o].counted <=> Crosses(History(objects', o))
               /\ (\E e \in last'.events : e[1] = o) <=> Crosses(History(objects', o))
               /\ <<o, "entered">> \in last'.events
                    <=> (Crosses(History(objects', o)) /\ MovedUp(History(objects', o)))
               /\ <<o, "exited">> \in last'.events
                    <=> (Crosses(History(objects', o)) /\ ~MovedUp(History(objects', o)))

C8_CrossingCondition == [][C8_Step]_vars

\* In one frame an object moved up onto the line and stayed uncounted while
\* another moved up above it and was logged as entered.
C8_Witness ==
    \E a \in DOMAIN objects, b \in DOMAIN objects :
        /\ a # b
        /\ a \in DOMAIN last.matched /\ b \in DOMAIN last.matched
        /\ Len(History(objects, a)) >= 2
        /\ Last(History(objects, a)).y = mid_y
        /\ MovedUp(History(objects, a))
        /\ ~objects[a].counted
        /\ <<b, "entered">> \in last.events
        /\ objects[b].counted

\* C9: after every frame the direction stored in an object holding at least
\* two centroids is Up when its last centroid is strictly above the one
\* before it and Down otherwise, equal heights included.
C9_StoredDirection ==
    \A o \in DOMAIN objects :
        Len(History(objects, o)) >= 2 =>
            objects[o].last_direction
                = (IF History(objects, o)[Len(History(objects, o))].y
                        < History(objects, o)[Len(History(objects, o)) - 1].y
                   THEN "Up" ELSE "Down")

\* An object was matched at the height it was at, and its direction is Down.
C9_Witness ==
    \E o \in DOMAIN objects :
        /\ o \in DOMAIN last.matched
        /\ Len(History(objects, o)) >= 2
        /\ History(objects, o)[Len(History(objects, o))].y
              = History(objects, o)[Len(History(objects, o)) - 1].y
        /\ objects[o].last_direction = "Down"

\* C10: an update call given no detection registers nothing, leaves every
\* object it keeps as it was, lowers no miss counter, and the registry is
\* empty once max_disappeared + 1 consecutive such calls were made.
C10_Step ==
    (calls' = calls + 1 /\ last'.rects = <<>> /\ last'.result # "Panic") =>
        /\ next_oid' = next_oid
        /\ DOMAIN objects' \subseteq DOMAIN objects
        /\ \A o \in DOMAIN objects' :
              /\ objects'[o] = objects[o]
              /\ Misses(disappeared', o) >= Misses(disappeared, o)
        /\ DOMAIN disappeared' \subseteq DOMAIN objects'
        /\ empty_streak' > max_disappeared =>
              DOMAIN objects' = {} /\ DOMAIN disappeared' = {}

C10_EmptyInputDrains == [][C10_Step]_vars

\* C11: an update call given no detection returns Ok, whatever the registry
\* holds, a registry of more than five objects included.
C11_EmptyInputIsOk ==
    (last.kind # "none" /\ last.rects = <<>>) => last.result = "Ok"

\* C12: an update call that returns an error leaves `objects`, `disappeared`
\* and next_oid exactly as they were.
C12_Step ==
    (calls' = calls + 1 /\ last'.result = "Err") =>
        /\ objects' = objects
        /\ disappeared' = disappeared
        /\ next_oid' = next_oid

C12_ErrorLeavesRegistry == [][C12_Step]_vars

\* The last call returned an error on a registry that holds objects and miss
\* entries, and the registry is the one the call found.
C12_Witness ==
    /\ last.result = "Err"
    /\ DOMAIN objects # {}
    /\ DOMAIN disappeared # {}
    /\ Tracker = last.pre

\* C13: no update call aborts the process: every call ends by returning Ok
\* or Err, on the optimal path with more objects than detections included.
C13_NeverAborts == status = "running" /\ last.result # "Panic"

\* C14: the miss counter counts consecutive misses.  A match leaves the
\* identity without a miss entry; the counter of a registered identity is
\* never above the number of consecutive calls it went unmatched; and an
\* identity is deregistered only in a call that is its (max_disappeared + 1)th
\* consecutive call without a match, misses made before its last match not
\* counting.
C14_Step ==
    (calls' = calls + 1 /\ last'.result = "Ok") =>
        /\ \A o \in DOMAIN last'.matched :
              o \in DOMAIN objects' /\ o \notin DOMAIN disappeared'
        /\ \A o \in DOMAIN objects' :
              Misses(disappeared', o) <= miss_streak'[o]
        /\ \A o \in DOMAIN objects \ DOMAIN objects' :
              /\ miss_streak[o] = max_disappeared
              /\ miss_streak'[o] = max_disappeared + 1
              /\ Misses(disappeared, o) = max_disappeared

C14_ConsecutiveMisses == [][C14_Step]_vars

\* An identity that was matched while it held a miss entry is deregistered
\* by the last call, its (max_disappeared + 1)th consecutive miss since.
C14_Witness ==
    \E o \in DOMAIN last.pre.objects :
        /\ o \in rematched
        /\ max_disappeared > 0
        /\ o \notin DOMAIN objects
        /\ last.result = "Ok"
        /\ miss_streak[o] = max_disappeared + 1

\* C15: in a call that returns Ok, each identity registered before the call
\* either has its history grown by exactly one centroid and no miss entry
\* after it, or has its history unchanged and its miss counter grown by
\* exactly one, being deregistered exactly when the grown counter exceeds
\* max_disappeared; never both and never neither.
HistoryGrew(o) ==
    /\ o \in DOMAIN objects'
    /\ Len(History(objects', o)) = Len(History(objects, o)) + 1
    /\ SubSeq(History(objects', o), 1, Len(History(objects, o))) = History(objects, o)
    /\ o \notin DOMAIN disappeared'

MissCounted(o) ==
    IF Misses(disappeared, o) + 1 > max_disappeared
    THEN o \notin DOMAIN objects' /\ o \notin DOMAIN disappeared'
    ELSE /\ o \in DOMAIN objects'
         /\ History(objects', o) = History(objects, o)
         /\ o \in DOMAIN disappeared'
         /\ disappeared'[o] = Misses(disappeared, o) + 1

C15_Step ==
    (calls' = calls + 1 /\ last'.result = "Ok") =>
        \A o \in DOMAIN objects :
            /\ HistoryGrew(o) \/ MissCounted(o)
            /\ ~(HistoryGrew(o) /\ MissCounted(o))

C15_OneMutationPerCall == [][C15_Step]_vars

\* One call appended to one object, counted a miss for a second, which
\* stays, and both were registered before it.
C15_Witness ==
    \E a \in DOMAIN last.pre.objects, b \in DOMAIN last.pre.objects :
        /\ last.result = "Ok"
        /\ a \in DOMAIN last.matched
        /\ a \notin DOMAIN disappeared
        /\ Len(History(objects, a)) = Len(History(last.pre.objects, a)) + 1
        /\ b \notin DOMAIN last.matched
        /\ b \in DOMAIN objects
        /\ History(objects, b) = History(last.pre.objects, b)
        /\ Misses(disappeared, b) = Misses(last.pre.disappeared, b) + 1

\* C16: after every update call every key of `disappeared` is the id of a
\* registered object.
C16_MissEntriesAreRegistered == DOMAIN disappeared \subseteq DOMAIN objects

\* The last call deregistered an identity that held a miss entry, and the
\* entry went with it, while another identity keeps its entry.
C16_Witness ==
    \E o \in DOMAIN last.pre.disappeared, p \in DOMAIN disappeared :
        /\ last.result = "Ok"
        /\ o \notin DOMAIN objects
        /\ o \notin DOMAIN disappeared
        /\ p \in DOMAIN objects

\* C17: the map an update call returns with Ok has exactly the identities
\* registered after the call as keys, and maps each to the last centroid of
\* its history.
C17_ReturnedMapping ==
    last.result = "Ok" =>
        /\ DOMAIN last.returned = DOMAIN objects
        /\ \A o \in DOMAIN objects : last.returned[o] = Last(History(objects, o))

\* The last call deregistered one identity, registered another and appended
\* to a third: the first is not a key of the returned map, the other two are.
C17_Witness ==
    \E o \in DOMAIN last.pre.objects, p \in DOMAIN objects, q \in DOMAIN last.matched :
        /\ last.result = "Ok"
        /\ o \notin DOMAIN objects
        /\ o \notin DOMAIN last.returned
        /\ p \notin DOMAIN last.pre.objects
        /\ p \in DOMAIN last.returned
        /\ q \in DOMAIN last.returned
        /\ last.returned[q] # History(objects, q)[1]

\* C18: no tracker constructed with max_disappeared = 0 ever reaches update.
C18_ConfigurationValidated == calls > 0 => max_disappeared > 0

\* A box of negative width or height.
Malformed(rect) == rect.width < 0 \/ rect.height < 0

\* C19: a call whose detection list holds a box of negative width or height
\* is handled as a call with no detection: it registers nothing and appends
\* to no history.
C19_Step ==
    (/\ calls' = calls + 1
     /\ \E j \in 1..Len(last'.rects) : Malformed(last'.rects[j]))
    => /\ next_oid' = next_oid
       /\ DOMAIN objects' \subseteq DOMAIN objects
       /\ \A o \in DOMAIN objects' : History(objects', o) = History(objects, o)

C19_MalformedInputIgnored == [][C19_Step]_vars

\* C20: an identity that left the registry never returns to it, an object
\* that has a direction keeps having one, and a counted object stays counted,
\* for as long as they are registered.
C20_Step ==
    /\ \A o \in 0..(next_oid - 1) :
          o \notin DOMAIN objects => o \notin DOMAIN objects'
    /\ \A o \in DOMAIN objects \cap DOMAIN objects' :
          /\ objects[o].last_direction # "None" => objects'[o].last_direction # "None"
          /\ objects[o].counted => objects'[o].counted
          /\ Len(History(objects, o)) >= 2 => Len(History(objects', o)) >= 2

C20_LifecycleMovesForward == [][C20_Step]_vars

\* The last call found one identity deregistered and registered a new one,
\* and the old identity is still out of the registry; an object that was
\* counted and had a direction before the call is counted and has one after.
C20_Witness ==
    \E o \in 0..(last.pre.next_oid - 1), p \in DOMAIN objects \cap DOMAIN last.pre.objects :
        /\ o \notin DOMAIN last.pre.objects
        /\ o \notin DOMAIN objects
        /\ next_oid > last.pre.next_oid
        /\ last.pre.objects[p].counted /\ objects[p].counted
        /\ last.pre.objects[p].last_direction # "None"
        /\ objects[p].last_direction # "None"

\* C21: at the end of every frame a registered object has no direction
\* exactly when it holds one centroid, and one holding two or more has the
\* direction of its last two centroids.
C21_DirectionDefined ==
    \A o \in DOMAIN objects :
        /\ objects[o].last_direction = "None" <=> Len(History(objects, o)) = 1
        /\ Len(History(objects, o)) >= 2 =>
              objects[o].last_direction
                 = (IF MovedUp(History(objects, o)) THEN "Up" ELSE "Down")

\* The last frame registered an object, which has no direction, beside an
\* object of two or more centroids whose direction is Up.
C21_Witness ==
    \E a \in DOMAIN objects, b \in DOMAIN objects :
        /\ a \notin DOMAIN last.pre.objects
        /\ Len(History(objects, a)) = 1
        /\ objects[a].last_direction = "None"
        /\ b \in DOMAIN last.pre.objects
        /\ Len(History(objects, b)) >= 2
        /\ objects[b].last_direction = "Up"

\* C22: among all set_logger calls of a process, concurrent ones included,
\* at most one returns Ok.
C22_InitialisedOnce == ok_count <= 1

\* C23: once a set_logger call has returned Ok, logger() returns the
\* installed logger on every thread.
C23_LoggerIsGlobal ==
    ok_count >= 1 => \A t \in Threads : logger(t) # 0

\* The five message levels from the least to the most severe.
Severity(l) ==
    CHOOSE i \in 1..5 : <<"Debug", "Info", "Warning", "Error", "Critical">>[i] = l

C25_NoLogSuppresses ==
    (last_log.logger # 0 /\ last_log.self_level = "NoLog") => ~last_log.emitted

\* C26: update is deterministic: whatever order the identity map is
\* iterated in, the call the last frame made ends with the same registry
\* (and so the same returned map).
C26_Deterministic ==
    last.kind # "none" =>
        \A o1 \in update(last.pre, last.rects, max_disappeared),
           o2 \in update(last.pre, last.rects, max_disappeared) :
            o1.result = o2.result /\ o1.t = o2.t

\* The unused detections within max_distance of object o of objs that are
\* at the least distance from it.
NearestUnused(objs, o, input, used) ==
    {j \in 1..Len(input) :
        /\ j \notin used
        /\ distance_to(Last(History(objs, o)), input[j]) <= max_distance * max_distance
        /\ \A k \in 1..Len(input) :
              k \notin used =>
                 distance_to(Last(History(objs, o)), input[j])
                    <= distance_to(Last(History(objs, o)), input[k])}

\* The least member of a set of indices, 0 for the empty set.
LowestIndex(S) == IF S = {} THEN 0 ELSE CHOOSE j \in S : \A k \in S : j <= k

\* C27: on the greedy path, for every object and every set of detections
\* already used, every way the parallel minimum can combine the candidates
\* yields the lowest-indexed of the nearest unused detections, and a match
\* the call applied passed over no equally near detection of lower index
\* that was left unused.
C27_LowestIndexWins ==
    (last.path = "greedy" /\ last.result = "Ok") =>
        /\ \A o \in DOMAIN last.pre.objects, used \in SUBSET (1..Len(last.rects)) :
              /\ min_by(Candidates(Last(History(last.pre.objects, o)),
                                    CentroidsOf(last.rects), used))
                    = {LowestIndex(NearestUnused(last.pre.objects, o,
                                                 CentroidsOf(last.rects), used))}
              /\ BestMatch(Last(History(last.pre.objects, o)),
                           CentroidsOf(last.rects), used)
                    = LowestIndex(NearestUnused(last.pre.objects, o,
                                                CentroidsOf(last.rects), used))
        /\ \A o \in DOMAIN last.matched, j \in 1..Len(last.rects) :
              (/\ j < last.matched[o]
               /\ distance_to(Last(History(last.pre.objects, o)), from_rect(last.rects[j]))
                     = distance_to(Last(History(last.pre.objects, o)),
                                   from_rect(last.rects[last.matched[o]])))
              => \E p \in DOMAIN last.matched : last.matched[p] = j

\* An object had three detections within max_distance, the first of the
\* list the farthest and the other two equally near, and was matched to the
\* first of these two.
C27_Witness ==
    \E o \in DOMAIN last.matched :
        /\ last.path = "greedy"
        /\ Len(last.rects) = 3
        /\ last.matched[o] = 2
        /\ NearestUnused(last.pre.objects, o, CentroidsOf(last.rects), {}) = {2, 3}
        /\ Len(Candidates(Last(History(last.pre.objects, o)),
                          CentroidsOf(last.rects), {})) = 3

\* No two objects have the same last centroid.
DistinctPositions(objs) ==
    \A a \in DOMAIN objs, b \in DOMAIN objs :
        a # b => Last(History(objs, a)) # Last(History(objs, b))

\* C28: on a registry of at most five objects at pairwise distinct positions
\* and a list of at most five detections, no fewer than the objects, the
\* matches the greedy path applied are matches the optimal path applies to
\* the same registry and list.
C28_GreedyEqualsOptimal ==
    (/\ last.path = "greedy"
     /\ last.result = "Ok"
     /\ DistinctPositions(last.pre.objects)
     /\ Cardinality(DOMAIN last.pre.objects) <= Len(last.rects))
    => \E out \in optimal_update(last.pre, CentroidsOf(last.rects), max_disappeared) :
          out.result = "Ok" /\ out.matched = last.matched

\* The matches `matched` are what visiting the objects in the order p gives:
\* each object is matched to a nearest detection among those no earlier
\* object was matched to, if one lies within max_distance, and is left
\* unmatched otherwise.
GreedyInOrder(objs, input, matched, p) ==
    \A i \in 1..Len(p) :
        LET used == {matched[p[k]] : k \in {l \in 1..(i - 1) : p[l] \in DOMAIN matched}}
            near == NearestUnused(objs, p[i], input, used)
        IN  IF near = {} THEN p[i] \notin DOMAIN matched
            ELSE p[i] \in DOMAIN matched /\ matched[p[i]] \in near

\* C29: the matches of a greedy call are those of visiting the objects one
\* at a time in some order, each taking the nearest detection not yet used if
\* it is within max_distance and going unmatched otherwise.
C29_GreedyMatching ==
    (last.path = "greedy" /\ last.result = "Ok") =>
        \E p \in Perms(DOMAIN last.pre.objects) :
            GreedyInOrder(last.pre.objects, CentroidsOf(last.rects), last.matched, p)

\* An object went unmatched although a detection within max_distance of it
\* was in the list: another object had used it; and a detection out of its
\* reach was registered.
C29_Witness ==
    \E o \in DOMAIN last.pre.objects, q \in DOMAIN last.matched :
        /\ last.path = "greedy"
        /\ o \notin DOMAIN last.matched
        /\ distance_to(Last(History(last.pre.objects, o)),
                       from_rect(last.rects[last.matched[q]]))
              <= max_distance * max_distance
        /\ next_oid > last.pre.next_oid

\* The detections of a call that were appended to no object, in ascending
\* order of index.
UnmatchedInputs(report) ==
    SelectSeq([j \in 1..Len(report.rects) |-> j],
              LAMBDA j : \A o \in DOMAIN report.matched : report.matched[o] # j)

\* C30: a call that returns Ok registers the detections it matched to no
\* object in ascending order of index, under consecutive ids from the
\* next_oid it found, each as an object of one centroid, not counted, with
\* no direction and no miss entry; on an empty registry nothing is matched
\* and every detection is registered.
C30_Step ==
    (calls' = calls + 1 /\ last'.result = "Ok") =>
        /\ next_oid' = next_oid + Len(UnmatchedInputs(last'))
        /\ \A k \in 1..Len(UnmatchedInputs(last')) :
              /\ (next_oid + k - 1) \in DOMAIN objects'
              /\ objects'[next_oid + k - 1]
                    = [oid |-> next_oid + k - 1,
                       centroids |-> <<from_rect(last'.rects[UnmatchedInputs(last')[k]])>>,
                       counted |-> FALSE, last_direction |-> "None"]
              /\ (next_oid + k - 1) \notin DOMAIN disappeared'
        /\ DOMAIN objects = {} =>
              last'.matched = <<>> /\ next_oid' = next_oid + Len(last'.rects)

C30_RegistrationOrder == [][C30_Step]_vars

\* The optimal path matched nothing and registered its six detections, at
\* six different places, under the next six ids in the order of the list.
C30_Witness ==
    /\ last.path = "optimal"
    /\ last.result = "Ok"
    /\ last.matched = <<>>
    /\ Len(last.rects) = GreedyLimit + 1
    /\ \A k \in 1..Len(last.rects) :
          /\ (last.pre.next_oid + k - 1) \in DOMAIN objects
          /\ History(objects, last.pre.next_oid + k - 1) = <<from_rect(last.rects[k])>>
          /\ \A l \in 1..Len(last.rects) : l # k => last.rects[l] # last.rects[k]

\* C34: the boxes handed to update are the boxes of the frame: on a detection
\* frame one box per accepted detection (one per tracker created), on a
\* tracking frame one box per tracker whose update succeeded.
C34_BoxesOfTheFrame ==
    /\ last.kind = "detect" => Len(last.rects) = trackers
    /\ last.kind = "track" =>
          (last.rects = tracked_rects /\ Len(last.rects) = trackers)

\* C35: an event is logged for an object only in a frame in which its last
\* two centroids are on opposite sides of the line y = 250: entered only from
\* y >= 250 to y < 250, exited only from y <= 250 to y > 250.
C35_OnlyOnCrossing ==
    \A e \in last.events :
        LET h == History(objects, e[1])
            prev_y == h[Len(h) - 1].y
            current_y == h[Len(h)].y
        IN  /\ e[2] = "entered" => (prev_y >= mid_y /\ current_y < mid_y)
            /\ e[2] = "exited" => (prev_y <= mid_y /\ current_y > mid_y)

\* C37: every event of a frame is for an object that update matched in that
\* frame, and an object that stays registered without being matched keeps
\* its counted flag.
C37_Step ==
    calls' = calls + 1 =>
        /\ \A e \in last'.events : e[1] \in DOMAIN last'.matched
        /\ \A o \in DOMAIN objects \cap DOMAIN objects' :
              o \notin DOMAIN last'.matched
                  => objects'[o].counted = objects[o].counted

C37_EventsOnlyWhenMatched == [][C37_Step]_vars

\* An object of at least two centroids, not counted, was missed in a frame
\* whose update returned Ok and is still registered: the crossing pass
\* evaluated its unchanged last two centroids again.
C37_Witness ==
    /\ last.result = "Ok"
    /\ \E o \in DOMAIN objects \cap DOMAIN last.pre.objects :
          /\ o \notin DOMAIN last.matched
          /\ o \in DOMAIN last.returned
          /\ Len(History(objects, o)) >= 2
          /\ History(objects, o) = last.pre.objects[o].centroids
          /\ ~objects[o].counted
          /\ emitted[o] = 0

\* The position among the unmatched detections of a call of detection j.
RankUnmatched(report, j) ==
    Cardinality({i \in 1..j : \A o \in DOMAIN report.matched : report.matched[o] # i})

\* C38: in a call that returns Ok on a registry that is not empty, no two
\* objects are matched to one detection, every detection is either appended
\* once to the history of the one object matched to it or is the one centroid
\* of one object registered in the call, never both, and the matches and the
\* registrations together are as many as the detections.
C38_EachDetectionOnce ==
    (last.result = "Ok" /\ DOMAIN last.pre.objects # {}) =>
        LET input == CentroidsOf(last.rects)
            m == last.matched
            new == last.pre.next_oid .. (next_oid - 1)
        IN  /\ \A a \in DOMAIN m, b \in DOMAIN m : m[a] = m[b] => a = b
            /\ Cardinality(DOMAIN m) + Cardinality(new) = Len(input)
            /\ new \subseteq DOMAIN objects
            /\ \A j \in 1..Len(input) :
                  LET takers == {o \in DOMAIN m : m[o] = j}
                      births == {o \in new : History(objects, o) = <<input[j]>>
                                    /\ o = last.pre.next_oid + RankUnmatched(last, j) - 1}
                  IN  /\ Cardinality(takers) + Cardinality(births) = 1
                      /\ \A o \in takers :
                            /\ o \in DOMAIN objects
                            /\ History(objects, o)
                                 = Trim(Append(last.pre.objects[o].centroids, input[j]))

\* The optimal path appended some of its detections to objects and
\* registered the others.
C38_Witness ==
    /\ last.path = "optimal"
    /\ last.result = "Ok"
    /\ DOMAIN last.matched # {}
    /\ next_oid > last.pre.next_oid
    /\ Cardinality(DOMAIN last.matched) + (next_oid - last.pre.next_oid)
          = Len(last.rects)

\* C39: every miss counter held in `disappeared` is at least 1 and at most
\* max_disappeared.
C39_MissCounterRange ==
    \A o \in DOMAIN disappeared :
        disappeared[o] >= 1 /\ disappeared[o] <= max_disappeared

\* An object has been missed max_disappeared times in a row, more than once,
\* and is still registered.
C39_Witness ==
    /\ max_disappeared >= 2
    /\ \E o \in DOMAIN disappeared :
          /\ disappeared[o] = max_disappeared
          /\ o \in DOMAIN objects

\* The last n entries of a sequence.
Newest(s, n) == SubSeq(s, Len(s) - n + 1, Len(s))

\* C33: at the end of every frame the history of each object is the newest
\* min(k, 50) of the k centroids ever pushed to it, in the order of their
\* arrival; with two or more pushed, its last two entries are the last two
\* pushed and its direction is the one they give.
C33_SlidingWindow ==
    \A o \in DOMAIN objects :
        LET k == Len(pushed[o])
        IN  /\ o \in DOMAIN pushed
            /\ History(objects, o)
                 = Newest(pushed[o], IF k <= HistoryCap THEN k ELSE HistoryCap)
            /\ k >= 2 =>
                  /\ Newest(History(objects, o), 2) = Newest(pushed[o], 2)
                  /\ objects[o].last_direction
                       = DirectionOf(pushed[o][k - 1].y, pushed[o][k].y)

\* An object was trimmed more than once: the first centroid it holds is the
\* third ever pushed or a later one, and differs from those dropped.
C33_Witness ==
    \E o \in DOMAIN objects :
        /\ Len(pushed[o]) >= HistoryCap + 2
        /\ Len(History(objects, o)) = HistoryCap
        /\ o \in DOMAIN last.matched
        /\ \A i \in 1..(Len(pushed[o]) - HistoryCap) :
              pushed[o][i] # History(objects, o)[1]

\* C31: a cell whose distance is within max_distance holds the distance
\* times 1000 (as f32 computes it) and is not the sentinel i32::MAX; a cell
\* whose distance exceeds max_distance holds the sentinel; for every
\* max_distance a tracker can be built with.
C31_SentinelOnlyWhenForbidden ==
    int_cell.computed =>
        IF int_cell.distance <= int_cell.max_distance
        THEN /\ int_cell.value < I32Max
             /\ int_cell.value = 8 * RoundF32(int_cell.distance * (CostScale \div 8))
        ELSE int_cell.value = I32Max

\* C31, for the tracker Net::new builds (max_distance = 20.0) on whole
\* distances: within 20 the cell is the distance times 1000 exactly, at most
\* 20000, and agrees with the cell of the optimal path; beyond 20 it is the
\* sentinel.
C31_AtConfiguredMaxDistance ==
    (int_cell.computed /\ int_cell.max_distance = max_distance) =>
        /\ int_cell.distance <= CostScale =>
              int_cell.value = CostCell(int_cell.distance * int_cell.distance)
        /\ IF int_cell.distance <= max_distance
           THEN int_cell.value = int_cell.distance * CostScale
                    /\ int_cell.value <= max_distance * CostScale
           ELSE int_cell.value = I32Max

\* A cell of the configured tracker was computed at its limit, 20.
C31_ConfiguredWitness ==
    /\ int_cell.computed
    /\ int_cell.max_distance = max_distance
    /\ int_cell.distance = max_distance
    /\ int_cell.value = max_distance * CostScale

\* The phases of an update call in which rayon workers run.
ParallelPhases == {"convert", "cost", "quantise", "scan"}

\* C32: a step of a worker of update (the conversion of a box, a cell of
\* cost_matrix, a cell of int_matrix, an item of the scan over the
\* assignments) leaves objects, disappeared and next_oid as they are, and
\* the registry the sequential phase leaves is the one the registry, the
\* boxes and the row order of the call determine, whatever the order in
\* which the workers ran.
C32_Step ==
    /\ par.phase \in ParallelPhases =>
          UNCHANGED <<objects, disappeared, next_oid>>
    /\ (par.phase = "apply" /\ par'.phase = "idle") =>
          \E out \in MatchOptimally(Tracker, CentroidsOf(par.rects), par.oids,
                                    max_disappeared,
                                    IntMatrix(CostCells(objects, CentroidsOf(par.rects)),
                                              par.oids)) :
              /\ out.result = "Ok"
              /\ objects' = out.t.objects
              /\ disappeared' = out.t.disappeared
              /\ next_oid' = out.t.next_oid
              /\ par'.matched = out.matched

C32_WorkersNeverWrite == [][C32_Step]_vars

\* A call on the optimal path has ended: its workers ran, and its sequential
\* phase appended detections to two objects and registered the four others.
C32_Witness ==
    /\ par.phase = "idle"
    /\ par.path = "optimal"
    /\ Cardinality(DOMAIN par.matched) = 2
    /\ \A o \in DOMAIN par.matched : Len(History(objects, o)) = 2
    /\ next_oid = 2 + GreedyLimit - 1

\* C36: when start has returned Ok after Ctrl+C, the video task and the RFID
\* task have both ended.
C36_TasksEndedAtReturn ==
    (recorder.start = "returned Ok" /\ recorder.ctrl_c) =>
        (recorder.video \in Terminated /\ recorder.serial \in Terminated)

====
